---------------------------- MODULE Spec2Model ----------------------------
(***************************************************************************)
(* Connection-lifecycle substrate of psiphon-tunnel-core:                  *)
(*   - Conns, the connection registry           (psiphon/net.go)           *)
(*   - LRUConns / LRUConnsEntry, the LRU set    (psiphon/net.go)           *)
(*   - RunServices, the service supervisor      (psiphon/server/services.go)*)
(* Each component has its own next-state relation and specification; the   *)
(* variables of the other components are left unchanged by it.             *)
(***************************************************************************)
EXTENDS Integers, Sequences, FiniteSets, TLC

(***************************************************************************)
(* Bounds of the model.                                                    *)
(***************************************************************************)
\* number of goroutines calling into the registry concurrently
NumProcs == 2
\* number of distinct net.Conn handles offered to the registry
NumConns == 2
\* a handle whose Close the registry has invoked this many times is not offered to Add again
MaxCloses == 1

\* number of LRUConns.Add calls, each of which creates one list element
MaxEntries == 3

\* largest unmetered byte budget given to NewThrottledConn
MaxBudget == 3
\* largest len(buffer) passed to ThrottledConn.Read and Write
MaxLen == 2
\* last instant of the clock
MaxTime == 3
\* length in bytes of the resource that is downloaded
FileLen == 2
\* number of stop channels a caller can hand to WaitForNetworkConnectivity
MaxStops == 2
\* largest number of bytes a conn gives to LocalProxyRelay
MaxRelay == 2

Procs == 1..NumProcs
Handles == 1..NumConns
Entries == 1..MaxEntries

VARIABLES
    \* ---- Conns (net.go:188-192) ----
    mutex,        \* Conns.mutex: 0 when unlocked, else the goroutine holding it
    isClosed,     \* Conns.isClosed
    conns,        \* Conns.conns: the keys of the map (a nil map behaves as the empty map)
    pc,           \* per goroutine: the registry method it is in
    arg,          \* per goroutine: the conn argument of the Add or Remove it is in (1 otherwise)
    iter,         \* per goroutine: keys the range loop of CloseAll has still to visit
    ret,          \* value returned by the most recent Add to return ("none" before any)
    closeCalls,   \* per handle: number of conn.Close() calls made by the registry
    \* history variables of the registry
    closedHist,   \* a CloseAll has acquired the mutex and no Reset has acquired it since
    live,         \* handles whose Add returned true, not since passed to Remove or dropped by Reset
    everAdded,    \* handles for which some Add returned true
    callCloses,   \* per goroutine: Close calls made per handle by the CloseAll it is in
    wasClosed,    \* per goroutine: isClosed when its CloseAll acquired the mutex
    \* ---- LRUConns and LRUConnsEntry (net.go:244-247, 285-288) ----
    lruMutex,     \* LRUConns.mutex: 0 when unlocked, else the goroutine holding it
    list,         \* LRUConns.list: the elements linked into the list, front first
    numEntries,   \* number of elements created by PushFront so far; element e belongs to
                  \* entry e and carries the conn passed to the e-th Add
    lpc,          \* per goroutine: the LRU method it is in
    larg,         \* per goroutine: the entry its Touch or Remove was called on (0 otherwise)
    oldest,       \* per goroutine: local variable oldest of CloseOldest (0 for nil)
    \* history variables of the LRU set
    recency,      \* every element created, most recent Add or Touch first (a Touch of
                  \* an entry already removed or evicted is not recorded)
    removed,      \* entries whose Remove has run
    closed,       \* elements on whose conn CloseOldest has invoked Close
    closedTwice,  \* CloseOldest has invoked Close on a conn it had closed before
    inert,        \* a Touch or Remove has run on an entry whose element was detached before
    \* ---- RunServices (services.go:41-146) ----
    spc,               \* the statement the supervisor is at
    runLoadMonitor,    \* config.RunLoadMonitor()
    runWebServer,      \* config.RunWebServer()
    shutdownBroadcast, \* "open" or "closed"
    closes,            \* number of close(shutdownBroadcast) executed
    waitGroup,         \* the counter of waitGroup
    err,               \* the variable err of RunServices
    retErr,            \* the value RunServices returned ("none" while it runs)
    registered,        \* signal.Notify has registered the three signal channels
    sigPending,        \* per signal channel (capacity 1): a signal is buffered
    loadMonitor,       \* the load monitor goroutine: none, spawned, ticking, exited
    worker,            \* per worker goroutine (web, tun): none, running, returned, exited
    result,            \* per worker: the error its server function returned
    loadLogged,        \* logServerLoad has been called
    \* history variables of the supervisor
    failedOpen,        \* per worker: it returned an error while shutdownBroadcast was open
    viaStop,           \* the supervisor left its loop through the systemStopSignal case
    \* ---- ThrottledConn (net.go:841-915) ----
    tBuilt,            \* NewThrottledConn has returned
    tdir,              \* the direction the model follows: "r" (Read) or "w" (Write)
    tRate,             \* limitReadBytesPerSecond / limitWriteBytesPerSecond
    tUnlimited,        \* unlimitedReadBytes / unlimitedWriteBytes
    tLimiting,         \* limitingReads / limitingWrites (0 or 1)
    tpc,               \* per goroutine: the statement of Read/Write it is at
    tlen,              \* per goroutine: len(buffer)
    \* history variables of the throttle
    tsubs,             \* per goroutine: AddInt64 subtractions made by its call
    tfirstLeft,        \* per goroutine: the first subtraction of its call left budget
    tsawLimiting,      \* per goroutine: the flag was 1 when its call began
    tvia,              \* per goroutine: the reader its call did the I/O on
    \* ---- ActivityMonitoredConn (net.go:753-832) ----
    aBuilt,            \* NewActivityMonitoredConn has returned
    now,               \* the clock time.Now() reads
    inactivityTimeout, \* conn.inactivityTimeout
    activeOnWrite,     \* conn.activeOnWrite
    startTime,         \* conn.startTime
    lastActivityTime,  \* conn.lastActivityTime
    readDeadline,      \* the read deadline of the wrapped conn (0: none set)
    lruEntry,          \* conn.lruEntry (0: nil)
    apc,               \* per caller: the statement of Read/Write it is at
    aok,               \* per caller: the wrapped Read/Write returned err == nil
    at,                \* per caller: the value time.Now() returned to it
    \* history variable of the activity monitor
    aeff,              \* per caller: the side effects its call has had
    \* ---- ResumeDownload (net.go:551-694) ----
    fT,                \* the file T (downloadFilename): its bytes, or NoFile
    fPart,             \* the file T.part: its bytes, or NoFile
    fEtag,             \* the file T.part.etag: the ETag in it, 0 when the file is absent
    srcVer,            \* the version of the resource the server holds
    dpc,               \* the statement the ResumeDownload call is at
    dhint,             \* ifNoneMatchETag (0: the empty string)
    dsize,             \* fileInfo.Size()
    dpartialETag,      \* partialETag (0: nil)
    dreq,              \* the request handed to httpClient.Do, NoRequest before
    dstatus,           \* response.StatusCode (0: no response)
    detag,             \* responseETag
    dbody,             \* the bytes of response.Body not yet copied
    dn,                \* n, the bytes io.Copy has written
    dret,              \* the values the call returned
    \* history variables of the download
    dT0,               \* the file T when the call began
    dpart0,            \* the file T.part when the request was made
    dfresh,            \* neither T.part nor T.part.etag existed when the call began
    dwrote,            \* the call has written the ETag file
    dver,              \* the version of the resource the response was made from
    prev,              \* what is known of the call before this one
    \* ---- SupportServices (services.go:172-246) ----
    filenames,         \* per component: Config has a filename for it
    compState,         \* per component: the state it holds
    \* ---- WaitForNetworkConnectivity (net.go:343-371) ----
    wpc,               \* the statement the call is at
    checker,           \* connectivityChecker != nil
    connectivity,      \* what HasNetworkConnectivity() returns when called now
    stops,             \* the stopBroadcasts handed to the call
    fired,             \* the stop channels that are closed
    tickerC,           \* a tick is waiting in ticker.C
    \* history variable of the connectivity waiter
    sawOne,            \* a call of HasNetworkConnectivity() has returned 1
    \* ---- LocalProxyRelay (net.go:316-335) ----
    rpc,               \* the statement the LocalProxyRelay call is at
    gpc,               \* the statement the goroutine it spawns is at
    copyWaitGroup,     \* the counter of copyWaitGroup
    source,            \* per direction: bytes its source still has to give
    copyErr,           \* per direction: the err its io.Copy returned
    notices,           \* per direction: calls of NoticeLocalProxyError
    \* history variable of the relay
    relayed            \* per direction: bytes io.Copy has written

regVars == <<mutex, isClosed, conns, pc, arg, iter, ret, closeCalls,
             closedHist, live, everAdded, callCloses, wasClosed>>

lruVars == <<lruMutex, list, numEntries, lpc, larg, oldest,
             recency, removed, closed, closedTwice, inert>>

supVars == <<spc, runLoadMonitor, runWebServer, shutdownBroadcast, closes, waitGroup,
             err, retErr, registered, sigPending, loadMonitor, worker, result,
             loadLogged, failedOpen, viaStop>>

thrVars == <<tBuilt, tdir, tRate, tUnlimited, tLimiting, tpc, tlen,
             tsubs, tfirstLeft, tsawLimiting, tvia>>

amcVars == <<aBuilt, now, inactivityTimeout, activeOnWrite, startTime, lastActivityTime,
             readDeadline, lruEntry, apc, aok, at, aeff>>

dlVars == <<fT, fPart, fEtag, srcVer, dpc, dhint, dsize, dpartialETag, dreq, dstatus,
            detag, dbody, dn, dret, dT0, dpart0, dfresh, dwrote, dver, prev>>

relVars == <<filenames, compState>>

wnVars == <<wpc, checker, connectivity, stops, fired, tickerC, sawOne>>

lprVars == <<rpc, gpc, copyWaitGroup, source, copyErr, notices, relayed>>

auxVars == <<relVars, wnVars, lprVars>>

netVars == <<thrVars, amcVars, dlVars, auxVars>>

vars == <<regVars, lruVars, supVars, netVars>>

NoCloses == [c \in Handles |-> 0]

(***************************************************************************)
(* Conns: zero value of the struct.                                        *)
(***************************************************************************)
ConnsInit ==
    /\ mutex = 0
    /\ isClosed = FALSE
    /\ conns = {}
    /\ pc = [g \in Procs |-> "idle"]
    /\ arg = [g \in Procs |-> 1]
    /\ iter = [g \in Procs |-> {}]
    /\ ret = "none"
    /\ closeCalls = NoCloses
    /\ closedHist = FALSE
    /\ live = {}
    /\ everAdded = {}
    /\ callCloses = [g \in Procs |-> NoCloses]
    /\ wasClosed = [g \in Procs |-> FALSE]

\* conns.mutex.Lock(): blocks until the mutex is free
Lock(g) == mutex = 0 /\ mutex' = g

\* the deferred conns.mutex.Unlock()
Unlock(g) == mutex' = 0

\* a goroutine (a pending dial) calls Add(c) and reaches conns.mutex.Lock()
AddCall(g, c) ==
    /\ pc[g] = "idle"
    /\ closeCalls[c] < MaxCloses
    /\ pc' = [pc EXCEPT ![g] = "AddWait"]
    /\ arg' = [arg EXCEPT ![g] = c]
    /\ UNCHANGED <<mutex, isClosed, conns, iter, ret, closeCalls,
                   closedHist, live, everAdded, callCloses, wasClosed,
                   lruVars, supVars, netVars>>

(***************************************************************************)
(* Conns.Add                                                               *)
(***************************************************************************)
AddLock(g) ==
    /\ pc[g] = "AddWait"
    /\ Lock(g)
    /\ pc' = [pc EXCEPT ![g] = "Add"]
    /\ UNCHANGED <<isClosed, conns, arg, iter, ret, closeCalls,
                   closedHist, live, everAdded, callCloses, wasClosed,
                   lruVars, supVars, netVars>>

\* Add as it would be without the isClosed test
AddBodyNoClosedCheck(g) ==
    /\ pc[g] = "Add"
    /\ conns' = conns \cup {arg[g]}
    /\ ret' = "true"
    /\ live' = live \cup {arg[g]}
    /\ everAdded' = everAdded \cup {arg[g]}
    /\ Unlock(g)
    /\ pc' = [pc EXCEPT ![g] = "idle"]
    /\ arg' = [arg EXCEPT ![g] = 1]
    /\ UNCHANGED <<isClosed, iter, closeCalls, closedHist, callCloses, wasClosed,
                   lruVars, supVars, netVars>>

AddBody(g) ==
    /\ pc[g] = "Add"
    /\ IF isClosed
         THEN /\ ret' = "false"
              /\ UNCHANGED <<conns, live, everAdded,
                   lruVars, supVars, netVars>>
         ELSE /\ conns' = conns \cup {arg[g]}
              /\ ret' = "true"
              /\ live' = live \cup {arg[g]}
              /\ everAdded' = everAdded \cup {arg[g]}
    /\ Unlock(g)
    /\ pc' = [pc EXCEPT ![g] = "idle"]
    /\ arg' = [arg EXCEPT ![g] = 1]
    /\ UNCHANGED <<isClosed, iter, closeCalls, closedHist, callCloses, wasClosed,
                   lruVars, supVars, netVars>>

(***************************************************************************)
(* Conns.Remove                                                            *)
(***************************************************************************)
RemoveLock(g, c) ==
    /\ pc[g] = "idle"
    /\ Lock(g)
    /\ pc' = [pc EXCEPT ![g] = "Remove"]
    /\ arg' = [arg EXCEPT ![g] = c]
    /\ UNCHANGED <<isClosed, conns, iter, ret, closeCalls,
                   closedHist, live, everAdded, callCloses, wasClosed,
                   lruVars, supVars, netVars>>

RemoveBody(g) ==
    /\ pc[g] = "Remove"
    /\ conns' = conns \ {arg[g]}
    /\ live' = live \ {arg[g]}
    /\ Unlock(g)
    /\ pc' = [pc EXCEPT ![g] = "idle"]
    /\ arg' = [arg EXCEPT ![g] = 1]
    /\ UNCHANGED <<isClosed, iter, ret, closeCalls,
                   closedHist, everAdded, callCloses, wasClosed,
                   lruVars, supVars, netVars>>

(***************************************************************************)
(* Conns.Reset                                                             *)
(***************************************************************************)
ResetLock(g) ==
    /\ pc[g] = "idle"
    /\ Lock(g)
    /\ pc' = [pc EXCEPT ![g] = "Reset"]
    /\ closedHist' = FALSE
    /\ UNCHANGED <<isClosed, conns, arg, iter, ret, closeCalls,
                   live, everAdded, callCloses, wasClosed,
                   lruVars, supVars, netVars>>

\* Reset as it would be if it only replaced the map
ResetBodyKeepsClosed(g) ==
    /\ pc[g] = "Reset"
    /\ conns' = {}
    /\ live' = {}
    /\ Unlock(g)
    /\ pc' = [pc EXCEPT ![g] = "idle"]
    /\ UNCHANGED <<isClosed, arg, iter, ret, closeCalls, closedHist, everAdded,
                   callCloses, wasClosed,
                   lruVars, supVars, netVars>>

ResetBody(g) ==
    /\ pc[g] = "Reset"
    /\ isClosed' = FALSE
    /\ conns' = {}
    /\ live' = {}
    /\ Unlock(g)
    /\ pc' = [pc EXCEPT ![g] = "idle"]
    /\ UNCHANGED <<arg, iter, ret, closeCalls, closedHist, everAdded, callCloses, wasClosed,
                   lruVars, supVars, netVars>>

(***************************************************************************)
(* Conns.CloseAll                                                          *)
(***************************************************************************)
\* CloseAll as it would be without conns.mutex.Lock()
CloseAllNoLock(g) ==
    /\ pc[g] = "idle"
    /\ pc' = [pc EXCEPT ![g] = "CloseAll"]
    /\ closedHist' = TRUE
    /\ wasClosed' = [wasClosed EXCEPT ![g] = isClosed]
    /\ callCloses' = [callCloses EXCEPT ![g] = NoCloses]
    /\ UNCHANGED <<mutex, isClosed, conns, arg, iter, ret, closeCalls, live, everAdded,
                   lruVars, supVars, netVars>>

CloseAllLock(g) ==
    /\ pc[g] = "idle"
    /\ Lock(g)
    /\ pc' = [pc EXCEPT ![g] = "CloseAll"]
    /\ closedHist' = TRUE
    /\ wasClosed' = [wasClosed EXCEPT ![g] = isClosed]
    /\ callCloses' = [callCloses EXCEPT ![g] = NoCloses]
    /\ UNCHANGED <<isClosed, conns, arg, iter, ret, closeCalls, live, everAdded,
                   lruVars, supVars, netVars>>

\* CloseAll as it would be with the map replaced before the range loop
CloseAllSetClearsFirst(g) ==
    /\ pc[g] = "CloseAll"
    /\ isClosed' = TRUE
    /\ iter' = [iter EXCEPT ![g] = {}]
    /\ conns' = {}
    /\ pc' = [pc EXCEPT ![g] = "CloseAllRange"]
    /\ UNCHANGED <<mutex, arg, ret, closeCalls,
                   closedHist, live, everAdded, callCloses, wasClosed,
                   lruVars, supVars, netVars>>

\* conns.isClosed = true, and the range statement starts over the map's keys
CloseAllSet(g) ==
    /\ pc[g] = "CloseAll"
    /\ isClosed' = TRUE
    /\ iter' = [iter EXCEPT ![g] = conns]
    /\ pc' = [pc EXCEPT ![g] = "CloseAllRange"]
    /\ UNCHANGED <<mutex, conns, arg, ret, closeCalls,
                   closedHist, live, everAdded, callCloses, wasClosed,
                   lruVars, supVars, netVars>>

\* one iteration of the range loop: conn.Close()
CloseAllRange(g) ==
    /\ pc[g] = "CloseAllRange"
    /\ \E c \in iter[g] :
         /\ closeCalls' = [closeCalls EXCEPT ![c] = @ + 1]
         /\ callCloses' = [callCloses EXCEPT ![g][c] = @ + 1]
         /\ iter' = [iter EXCEPT ![g] = @ \ {c}]
    /\ UNCHANGED <<mutex, isClosed, conns, pc, arg, ret,
                   closedHist, live, everAdded, wasClosed,
                   lruVars, supVars, netVars>>

\* end of the range loop: the map is replaced by an empty one, the mutex released
CloseAllReturn(g) ==
    /\ pc[g] = "CloseAllRange"
    /\ iter[g] = {}
    /\ conns' = {}
    /\ Unlock(g)
    /\ pc' = [pc EXCEPT ![g] = "idle"]
    /\ callCloses' = [callCloses EXCEPT ![g] = NoCloses]
    /\ wasClosed' = [wasClosed EXCEPT ![g] = FALSE]
    /\ UNCHANGED <<isClosed, arg, iter, ret, closeCalls, closedHist, live, everAdded,
                   lruVars, supVars, netVars>>

ConnsNext ==
    \E g \in Procs :
        \/ \E c \in Handles : AddCall(g, c)
        \/ AddLock(g)
        \/ AddBody(g)
        \/ \E c \in Handles : RemoveLock(g, c)
        \/ RemoveBody(g)
        \/ ResetLock(g)
        \/ ResetBody(g)
        \/ CloseAllLock(g)
        \/ CloseAllSet(g)
        \/ CloseAllRange(g)
        \/ CloseAllReturn(g)

(***************************************************************************)
(* Claims about the registry.                                              *)
(***************************************************************************)

\* C4: Add returns false exactly when a CloseAll has taken the mutex and no
\* Reset has taken it since; a failed Add finds the mapping empty and leaves
\* it unchanged; Reset clears the flag and empties the mapping, so that the
\* next Add succeeds.
C4_AddFalseIffClosed ==
    [][\A g \in Procs :
         /\ AddBody(g) =>
               /\ (ret' = "false") <=> closedHist
               /\ (ret' = "true") <=> ~closedHist
               /\ (ret' = "false") => (conns = {} /\ conns' = {})
               /\ (ret' = "true") => arg[g] \in conns'
         /\ ResetBody(g) => (~isClosed' /\ conns' = {} /\ ~closedHist')
      ]_vars

\* C4 witness: an Add has just returned false on a closed registry
C4_Witness == ret = "false" /\ isClosed /\ mutex = 0 /\ everAdded # {}

\* C5 as stated: when a CloseAll completes, every handle for which an Add
\* has returned true has had Close invoked at least once.
C5_Original ==
    [][\A g \in Procs :
         CloseAllReturn(g) => \A c \in everAdded : closeCalls'[c] >= 1
      ]_vars

\* C5 as amended: when a CloseAll completes, every handle for which an Add
\* has returned true and that has not since been passed to Remove or dropped
\* by Reset has had Close invoked at least once.
C5_ClosureOfRegistered ==
    [][\A g \in Procs :
         CloseAllReturn(g) => \A c \in live : closeCalls'[c] >= 1
      ]_vars

\* C5 witness: a CloseAll has completed; a registered handle was closed by it
\* and a handle that had been removed before it was not
C5_Witness ==
    /\ mutex = 0
    /\ isClosed
    /\ \E c \in live : closeCalls[c] = 1
    /\ \E c \in everAdded \ live : closeCalls[c] = 0

\* C6: whenever no operation holds the mutex, a closed registry has an empty
\* mapping; and a handle whose Add returned true (and that was not removed or
\* reset away) is either still registered or has been closed: no Add that
\* races with a CloseAll leaves a handle registered and unclosed.
C6_AddCloseAllRace ==
    /\ (mutex = 0 /\ isClosed) => conns = {}
    /\ \A c \in live : c \in conns \/ closeCalls[c] >= 1
    /\ (mutex = 0) => \A c \in conns : c \in live

\* C6 witness: a CloseAll holds the mutex and has closed the registered
\* handle of an earlier Add while another Add waits for the mutex
C6_Witness ==
    \E g1, g2 \in Procs :
        /\ pc[g1] = "CloseAllRange" /\ iter[g1] = {} /\ conns # {}
        /\ \A c \in conns : closeCalls[c] >= 1
        /\ pc[g2] = "AddWait"

\* C7: within one CloseAll, Close has been invoked exactly once on each
\* registered handle the range loop has visited and on no other handle, so at
\* the end of the loop each handle registered at that moment has been closed
\* exactly once by this call; a CloseAll that finds the registry already
\* closed finds the mapping empty and invokes no Close.
C7_CloseAllOnceEach ==
    \A g \in Procs :
        pc[g] = "CloseAllRange" =>
            /\ isClosed
            /\ iter[g] \subseteq conns
            /\ \A c \in Handles :
                   callCloses[g][c] = IF c \in conns \ iter[g] THEN 1 ELSE 0
            /\ wasClosed[g] => (conns = {} /\ callCloses[g] = NoCloses)

\* C7 witness: a CloseAll has finished its loop over two registered handles
C7_Witness ==
    \E g \in Procs :
        /\ pc[g] = "CloseAllRange" /\ iter[g] = {}
        /\ Cardinality(conns) >= 2

(***************************************************************************)
(* LRUConns: container/list as the code uses it.  An element belongs to    *)
(* the list while it is linked into it; list.Remove and list.MoveToFront   *)
(* do nothing for an element that does not belong to the list.             *)
(***************************************************************************)
RECURSIVE Without(_, _)
Without(l, e) ==
    IF l = <<>> THEN <<>>
    ELSE IF Head(l) = e THEN Without(Tail(l), e)
    ELSE <<Head(l)>> \o Without(Tail(l), e)

Elements(l) == {l[i] : i \in 1..Len(l)}

\* list.PushFront
PushFront(l, e) == <<e>> \o l

\* list.Back: the last element, 0 (nil) for an empty list
Back(l) == IF l = <<>> THEN 0 ELSE l[Len(l)]

\* list.Remove
ListRemove(l, e) == IF e \in Elements(l) THEN Without(l, e) ELSE l

\* list.MoveToFront
MoveToFront(l, e) == IF e \in Elements(l) THEN <<e>> \o Without(l, e) ELSE l

\* NewLRUConns
LRUInit ==
    /\ lruMutex = 0
    /\ list = <<>>
    /\ numEntries = 0
    /\ lpc = [g \in Procs |-> "idle"]
    /\ larg = [g \in Procs |-> 0]
    /\ oldest = [g \in Procs |-> 0]
    /\ recency = <<>>
    /\ removed = {}
    /\ closed = {}
    /\ closedTwice = FALSE
    /\ inert = FALSE

\* the entries LRUConns.Add has returned so far
Created == 1..numEntries

\* elements CloseOldest has detached: closed already, or held by a call that
\* has not closed them yet
Evicted == closed \cup {oldest[g] : g \in {h \in Procs : oldest[h] # 0}}

LRULock(g) == lruMutex = 0 /\ lruMutex' = g

LRUUnlock(g) == lruMutex' = 0

(***************************************************************************)
(* LRUConns.Add                                                            *)
(***************************************************************************)
LRUAddLock(g) ==
    /\ lpc[g] = "idle"
    /\ numEntries < MaxEntries
    /\ LRULock(g)
    /\ lpc' = [lpc EXCEPT ![g] = "Add"]
    /\ UNCHANGED <<list, numEntries, larg, oldest, recency, removed, closed, closedTwice, inert,
                   regVars, supVars, netVars>>

LRUAddBody(g) ==
    /\ lpc[g] = "Add"
    /\ numEntries' = numEntries + 1
    /\ list' = PushFront(list, numEntries + 1)
    /\ recency' = <<numEntries + 1>> \o recency
    /\ LRUUnlock(g)
    /\ lpc' = [lpc EXCEPT ![g] = "idle"]
    /\ UNCHANGED <<larg, oldest, removed, closed, closedTwice, inert, regVars, supVars, netVars>>

(***************************************************************************)
(* LRUConns.CloseOldest                                                    *)
(***************************************************************************)
CloseOldestLock(g) ==
    /\ lpc[g] = "idle"
    /\ LRULock(g)
    /\ lpc' = [lpc EXCEPT ![g] = "CloseOldest"]
    /\ UNCHANGED <<list, numEntries, larg, oldest, recency, removed, closed, closedTwice,
                   inert, regVars, supVars, netVars>>

\* CloseOldest as it would be if it took list.Front() for the oldest element
CloseOldestDetachFront(g) ==
    /\ lpc[g] = "CloseOldest"
    /\ IF list = <<>>
         THEN /\ lpc' = [lpc EXCEPT ![g] = "panicked"]
              /\ UNCHANGED <<lruMutex, list, oldest>>
         ELSE /\ oldest' = [oldest EXCEPT ![g] = Head(list)]
              /\ list' = ListRemove(list, Head(list))
              /\ LRUUnlock(g)
              /\ lpc' = [lpc EXCEPT ![g] = "CloseOldestClose"]
    /\ UNCHANGED <<numEntries, larg, recency, removed, closed, closedTwice, inert, regVars, supVars, netVars>>

\* oldest := list.Back(); oldest.Value is read before the nil test, so an
\* empty list ends the call in a nil-pointer panic with the mutex still held;
\* otherwise the element is removed and the mutex released
CloseOldestDetach(g) ==
    /\ lpc[g] = "CloseOldest"
    /\ IF Back(list) = 0
         THEN /\ lpc' = [lpc EXCEPT ![g] = "panicked"]
              /\ UNCHANGED <<lruMutex, list, oldest>>
         ELSE /\ oldest' = [oldest EXCEPT ![g] = Back(list)]
              /\ list' = ListRemove(list, Back(list))
              /\ LRUUnlock(g)
              /\ lpc' = [lpc EXCEPT ![g] = "CloseOldestClose"]
    /\ UNCHANGED <<numEntries, larg, recency, removed, closed, closedTwice, inert, regVars, supVars, netVars>>

\* conn.Close() calls back into the LRU set the conn belongs to: each of
\* Add, CloseOldest, Remove and Touch starts by taking the mutex
CloseReenterLock(g) ==
    /\ lpc[g] = "CloseOldestClose"
    /\ LRULock(g)
    /\ lpc' = [lpc EXCEPT ![g] = "CloseReenter"]
    /\ UNCHANGED <<list, numEntries, larg, oldest, recency, removed, closed, closedTwice,
                   inert, regVars, supVars, netVars>>

\* the call made from inside Close is entry.Remove() on the conn's own entry
CloseReenterRemove(g) ==
    /\ lpc[g] = "CloseReenter"
    /\ list' = ListRemove(list, oldest[g])
    /\ removed' = removed \cup {oldest[g]}
    /\ inert' = TRUE
    /\ LRUUnlock(g)
    /\ lpc' = [lpc EXCEPT ![g] = "CloseReentered"]
    /\ UNCHANGED <<numEntries, larg, oldest, recency, closed, closedTwice, regVars, supVars, netVars>>

\* the call made from inside Close is CloseOldest(): the same statements as
\* CloseOldestDetach, followed by the Close of the conn it detached
CloseReenterCloseOldest(g) ==
    /\ lpc[g] = "CloseReenter"
    /\ IF Back(list) = 0
         THEN /\ lpc' = [lpc EXCEPT ![g] = "panicked"]
              /\ UNCHANGED <<lruMutex, list, closed, closedTwice>>
         ELSE /\ list' = ListRemove(list, Back(list))
              /\ LRUUnlock(g)
              /\ closed' = closed \cup {Back(list)}
              /\ closedTwice' = (closedTwice \/ Back(list) \in closed)
              /\ lpc' = [lpc EXCEPT ![g] = "CloseReentered"]
    /\ UNCHANGED <<numEntries, larg, oldest, recency, removed, inert, regVars, supVars, netVars>>

\* conn.Close(), after the mutex was released
CloseOldestClose(g) ==
    /\ lpc[g] \in {"CloseOldestClose", "CloseReentered"}
    /\ closed' = closed \cup {oldest[g]}
    /\ closedTwice' = (closedTwice \/ oldest[g] \in closed)
    /\ oldest' = [oldest EXCEPT ![g] = 0]
    /\ lpc' = [lpc EXCEPT ![g] = "idle"]
    /\ UNCHANGED <<lruMutex, list, numEntries, larg, recency, removed, inert,
                   regVars, supVars, netVars>>

(***************************************************************************)
(* LRUConnsEntry.Remove.  Entries come from LRUConns.Add, so neither       *)
(* entry.lruConns nor entry.element is nil and the early return is not     *)
(* taken.                                                                  *)
(***************************************************************************)
EntryRemoveLock(g, e) ==
    /\ lpc[g] = "idle"
    /\ e \in Created
    /\ LRULock(g)
    /\ lpc' = [lpc EXCEPT ![g] = "Remove"]
    /\ larg' = [larg EXCEPT ![g] = e]
    /\ UNCHANGED <<list, numEntries, oldest, recency, removed, closed, closedTwice, inert,
                   regVars, supVars, netVars>>

EntryRemoveBody(g) ==
    /\ lpc[g] = "Remove"
    /\ list' = ListRemove(list, larg[g])
    /\ removed' = removed \cup {larg[g]}
    /\ inert' = (inert \/ larg[g] \in removed \cup Evicted)
    /\ LRUUnlock(g)
    /\ lpc' = [lpc EXCEPT ![g] = "idle"]
    /\ larg' = [larg EXCEPT ![g] = 0]
    /\ UNCHANGED <<numEntries, oldest, recency, closed, closedTwice, regVars, supVars, netVars>>

(***************************************************************************)
(* LRUConnsEntry.Touch                                                     *)
(***************************************************************************)
EntryTouchLock(g, e) ==
    /\ lpc[g] = "idle"
    /\ e \in Created
    /\ LRULock(g)
    /\ lpc' = [lpc EXCEPT ![g] = "Touch"]
    /\ larg' = [larg EXCEPT ![g] = e]
    /\ UNCHANGED <<list, numEntries, oldest, recency, removed, closed, closedTwice, inert,
                   regVars, supVars, netVars>>

\* Touch as it would be if it pushed the conn to the front without asking
\* whether the element still belongs to the list
EntryTouchBodyReinserts(g) ==
    /\ lpc[g] = "Touch"
    /\ list' = PushFront(Without(list, larg[g]), larg[g])
    /\ recency' = IF larg[g] \in removed \cup Evicted
                     THEN recency
                     ELSE <<larg[g]>> \o Without(recency, larg[g])
    /\ inert' = (inert \/ larg[g] \in removed \cup Evicted)
    /\ LRUUnlock(g)
    /\ lpc' = [lpc EXCEPT ![g] = "idle"]
    /\ larg' = [larg EXCEPT ![g] = 0]
    /\ UNCHANGED <<numEntries, oldest, removed, closed, closedTwice, regVars, supVars, netVars>>

EntryTouchBody(g) ==
    /\ lpc[g] = "Touch"
    /\ list' = MoveToFront(list, larg[g])
    /\ recency' = IF larg[g] \in removed \cup Evicted
                     THEN recency
                     ELSE <<larg[g]>> \o Without(recency, larg[g])
    /\ inert' = (inert \/ larg[g] \in removed \cup Evicted)
    /\ LRUUnlock(g)
    /\ lpc' = [lpc EXCEPT ![g] = "idle"]
    /\ larg' = [larg EXCEPT ![g] = 0]
    /\ UNCHANGED <<numEntries, oldest, removed, closed, closedTwice, regVars, supVars, netVars>>

LRUNext ==
    \E g \in Procs :
        \/ LRUAddLock(g)
        \/ LRUAddBody(g)
        \/ CloseOldestLock(g)
        \/ CloseOldestDetach(g)
        \/ CloseReenterLock(g)
        \/ CloseReenterRemove(g)
        \/ CloseReenterCloseOldest(g)
        \/ CloseOldestClose(g)
        \/ \E e \in Entries : EntryRemoveLock(g, e)
        \/ EntryRemoveBody(g)
        \/ \E e \in Entries : EntryTouchLock(g, e)
        \/ EntryTouchBody(g)

(***************************************************************************)
(* Claims about the LRU set.                                               *)
(***************************************************************************)

\* entries added, minus those removed, minus those CloseOldest has detached
Survivors == (Created \ removed) \ Evicted

RECURSIVE Keep(_, _)
Keep(l, S) ==
    IF l = <<>> THEN <<>>
    ELSE IF Head(l) \in S THEN <<Head(l)>> \o Keep(Tail(l), S)
    ELSE Keep(Tail(l), S)

\* the surviving entries, most recent Add or Touch first
ByRecency == Keep(recency, Survivors)

C9_LRUOrdering ==
    [][/\ list' = ByRecency'
       /\ \A g \in Procs :
            (CloseOldestDetach(g) /\ list # <<>>) =>
                /\ oldest'[g] = Back(ByRecency)
                /\ lpc'[g] = "CloseOldestClose"
       /\ \A g \in Procs :
            CloseOldestClose(g) => closed' = closed \cup {oldest[g]}
      ]_vars

\* C9 witness: three conns were added, the first was touched, and the two
\* CloseOldest calls made so far have closed the second and the third
C9_Witness ==
    /\ numEntries = 3
    /\ removed = {}
    /\ closed = {2, 3}
    /\ list = <<1>>

\* C10: a Touch or a Remove on an entry whose element was detached before,
\* by Remove or by CloseOldest, leaves the list as it is and does not put
\* the conn back.
C10_DetachedEntryInert ==
    [][\A g \in Procs :
         ((EntryTouchBody(g) \/ EntryRemoveBody(g)) /\ larg[g] \in removed \cup Evicted) =>
             /\ list' = list
             /\ larg[g] \notin Elements(list')
      ]_vars

\* C10 witness: a Touch or Remove has run on a detached entry while other
\* entries were in the list
C10_Witness == inert /\ list # <<>> /\ removed # {} /\ closed # {}

\* C28 as stated: CloseOldest detaches the tail with the mutex held and calls
\* Close only after releasing it, so that a Close which calls back into the
\* same LRU set (entry.Remove, CloseOldest) gets the mutex and completes; no
\* conn is closed twice by the LRU set; and a conn whose entry was removed
\* before CloseOldest detached it is never closed by CloseOldest.
C28_CloseOutsideMutex ==
    [][\A g \in Procs :
         /\ (CloseOldestDetach(g) /\ list # <<>>) =>
                /\ lruMutex = g /\ lruMutex' = 0
                /\ oldest'[g] \notin removed
                /\ closed' = closed
         /\ CloseOldestClose(g) => (lruMutex # g /\ oldest[g] \notin closed)
         /\ CloseReenterLock(g) => lruMutex = 0
         /\ (CloseReenterRemove(g) \/ CloseReenterCloseOldest(g)) =>
                /\ lpc'[g] = "CloseReentered"
                /\ lruMutex' = 0
         /\ ~closedTwice'
      ]_vars

(***************************************************************************)
(* RunServices, the service supervisor, and the goroutines it spawns.      *)
(***************************************************************************)
Workers == {"web", "tun"}
Signals == {"stop", "reload", "load"}

\* the error a worker's server function returns when it fails
ErrorOf(w) == IF w = "web" THEN "webErr" ELSE "tunErr"

\* the statements of RunServices up to the construction of the tunnel
\* server, each of which can fail and make RunServices return its error
BootSteps == <<"LoadConfig", "InitLogging", "NewSupportServices", "NewTunnelServer">>

\* the statements of the multiplex loop
InLoop == {"Select", "Parked", "Reload", "LogLoad"}

\* the components of SupportServices, in the order Reload takes them
ComponentOrder == <<"trafficRules", "psinet", "geoIP">>

Components == {ComponentOrder[i] : i \in 1..Len(ComponentOrder)}

\* the components Reload takes before c
Before(c) == {ComponentOrder[i] : i \in {j \in 1..Len(ComponentOrder) :
                                          \E k \in (j + 1)..Len(ComponentOrder) : ComponentOrder[k] = c}}

\* the configurations run: one with the three filenames, one with the
\* filename of the GeoIP database alone
Configs == {[c \in Components |-> TRUE], [c \in Components |-> c = "geoIP"]}

\* NewSupportServices has given every component its first state; no
\* filename is known before the configuration is loaded
RelInit ==
    /\ filenames = [c \in Components |-> FALSE]
    /\ compState = [c \in Components |-> "initial"]

\* RunServices is called; the configuration is not loaded yet
SupInit ==
    /\ spc = "LoadConfig"
    /\ runLoadMonitor = FALSE
    /\ runWebServer = FALSE
    /\ shutdownBroadcast = "open"
    /\ closes = 0
    /\ waitGroup = 0
    /\ err = "nil"
    /\ retErr = "none"
    /\ registered = FALSE
    /\ sigPending = [sig \in Signals |-> FALSE]
    /\ loadMonitor = "none"
    /\ worker = [w \in Workers |-> "none"]
    /\ result = [w \in Workers |-> "nil"]
    /\ loadLogged = FALSE
    /\ failedOpen = [w \in Workers |-> FALSE]
    /\ viaStop = FALSE

\* LoadConfig, InitLogging, NewSupportServices, NewTunnelServer: on error
\* RunServices returns it at once; nothing has been spawned.  LoadConfig
\* yields the configuration, which says whether the load monitor and the web
\* server are to run.
Bootstrap(i, ok) ==
    /\ spc = BootSteps[i]
    /\ IF ok
         THEN /\ spc' = IF i < Len(BootSteps) THEN BootSteps[i + 1] ELSE "SpawnLoadMonitor"
              /\ UNCHANGED <<err, retErr>>
         ELSE /\ spc' = "failed"
              /\ err' = "bootErr"
              /\ retErr' = "bootErr"
    /\ IF ok /\ BootSteps[i] = "LoadConfig"
         THEN /\ runLoadMonitor' \in BOOLEAN /\ runWebServer' \in BOOLEAN
              /\ filenames' \in Configs
         ELSE UNCHANGED <<runLoadMonitor, runWebServer, filenames>>
    /\ UNCHANGED <<shutdownBroadcast, closes, waitGroup,
                   registered, sigPending, loadMonitor, worker, result, loadLogged,
                   failedOpen, viaStop, compState, regVars, lruVars, thrVars, amcVars,
                   dlVars, wnVars, lprVars>>

\* if config.RunLoadMonitor() { waitGroup.Add(1); go func() ... }
SpawnLoadMonitor ==
    /\ spc = "SpawnLoadMonitor"
    /\ spc' = "SpawnWebServer"
    /\ IF runLoadMonitor
         THEN waitGroup' = waitGroup + 1 /\ loadMonitor' = "spawned"
         ELSE UNCHANGED <<waitGroup, loadMonitor>>
    /\ UNCHANGED <<runLoadMonitor, runWebServer, shutdownBroadcast, closes, err, retErr,
                   registered, sigPending, worker, result, loadLogged, failedOpen, viaStop,
                   regVars, lruVars, netVars>>

\* if config.RunWebServer() { waitGroup.Add(1); go func() ... }
SpawnWebServer ==
    /\ spc = "SpawnWebServer"
    /\ spc' = "SpawnTunnelServer"
    /\ IF runWebServer
         THEN waitGroup' = waitGroup + 1 /\ worker' = [worker EXCEPT !["web"] = "running"]
         ELSE UNCHANGED <<waitGroup, worker>>
    /\ UNCHANGED <<runLoadMonitor, runWebServer, shutdownBroadcast, closes, err, retErr,
                   registered, sigPending, loadMonitor, result, loadLogged, failedOpen,
                   viaStop, regVars, lruVars, netVars>>

\* waitGroup.Add(1); go func() ... tunnelServer.Run() ...
SpawnTunnelServer ==
    /\ spc = "SpawnTunnelServer"
    /\ spc' = "Notify"
    /\ waitGroup' = waitGroup + 1
    /\ worker' = [worker EXCEPT !["tun"] = "running"]
    /\ UNCHANGED <<runLoadMonitor, runWebServer, shutdownBroadcast, closes, err, retErr,
                   registered, sigPending, loadMonitor, result, loadLogged, failedOpen,
                   viaStop, regVars, lruVars, netVars>>

\* the three signal.Notify calls, and err = nil
Notify ==
    /\ spc = "Notify"
    /\ spc' = "Select"
    /\ registered' = TRUE
    /\ err' = "nil"
    /\ UNCHANGED <<runLoadMonitor, runWebServer, shutdownBroadcast, closes, waitGroup,
                   retErr, sigPending, loadMonitor, worker, result, loadLogged, failedOpen,
                   viaStop, regVars, lruVars, netVars>>

\* the case of the select statement that receives signal sig
TakeSignal(sig) ==
    /\ spc' = CASE sig = "reload" -> "Reload"
                [] sig = "load" -> "LogLoad"
                [] sig = "stop" -> "Close"
    /\ viaStop' = (viaStop \/ sig = "stop")

\* the select statement is reached: a buffered signal is received, any of
\* them when several are buffered; with none buffered the supervisor blocks
\* (errors is unbuffered and its senders never wait, so that case is never
\* ready at this point)
Select ==
    /\ spc = "Select"
    /\ \/ \E sig \in Signals :
             /\ sigPending[sig]
             /\ sigPending' = [sigPending EXCEPT ![sig] = FALSE]
             /\ TakeSignal(sig)
       \/ /\ \A sig \in Signals : ~sigPending[sig]
          /\ spc' = "Parked"
          /\ UNCHANGED <<sigPending, viaStop>>
    /\ UNCHANGED <<runLoadMonitor, runWebServer, shutdownBroadcast, closes, waitGroup,
                   err, retErr, registered, loadMonitor, worker, result, loadLogged,
                   failedOpen, regVars, lruVars, netVars>>

\* the operating system delivers a signal: it is handed to the supervisor
\* blocked in the select, else buffered in its channel of capacity 1, else
\* (channel full) dropped
SignalArrives(sig) ==
    /\ registered
    /\ spc \notin {"done", "failed"}
    /\ IF spc = "Parked"
         THEN TakeSignal(sig) /\ UNCHANGED sigPending
         ELSE /\ ~sigPending[sig]
              /\ sigPending' = [sigPending EXCEPT ![sig] = TRUE]
              /\ UNCHANGED <<spc, viaStop>>
    /\ UNCHANGED <<runLoadMonitor, runWebServer, shutdownBroadcast, closes, waitGroup,
                   err, retErr, registered, loadMonitor, worker, result, loadLogged,
                   failedOpen, regVars, lruVars, netVars>>

\* TrafficRulesSet.Reload, PsinetDatabase.Reload, GeoIPService.ReloadDatabase:
\* a reload that succeeds installs the state read from the file, one that
\* fails leaves the component as it was
ComponentReload(state, ok) == IF ok THEN "reloaded" ELSE state

\* Reload as it would be if it returned at the first reload that failed
SupportReloadStopsAtFailure(ok) ==
    [c \in Components |->
        IF filenames[c] /\ \A b \in Before(c) : filenames[b] => ok[b]
           THEN ComponentReload(compState[c], ok[c])
           ELSE compState[c]]

\* SupportServices.Reload: the three if statements, each of which calls the
\* reload of its component when the filename is not empty and logs the
\* error it returns; ok[c] says whether the reload of c succeeds when called
SupportReload(ok) ==
    [c \in Components |->
        IF filenames[c] THEN ComponentReload(compState[c], ok[c]) ELSE compState[c]]

\* case <-reloadSupportServicesSignal: supportServices.Reload()
ReloadWith(ok) ==
    /\ spc = "Reload"
    /\ compState' = SupportReload(ok)
    /\ spc' = "Select"
    /\ UNCHANGED <<runLoadMonitor, runWebServer, shutdownBroadcast, closes, waitGroup,
                   err, retErr, registered, sigPending, loadMonitor, worker, result,
                   loadLogged, failedOpen, viaStop, filenames, regVars, lruVars,
                   thrVars, amcVars, dlVars, wnVars, lprVars>>

Reload == \E ok \in [Components -> BOOLEAN] : ReloadWith(ok)

\* logServerLoad(tunnelServer)
LogLoad ==
    /\ spc = "LogLoad"
    /\ spc' = "Select"
    /\ loadLogged' = TRUE
    /\ UNCHANGED <<runLoadMonitor, runWebServer, shutdownBroadcast, closes, waitGroup,
                   err, retErr, registered, sigPending, loadMonitor, worker, result,
                   failedOpen, viaStop, regVars, lruVars, netVars>>

\* close(shutdownBroadcast)
CloseBroadcast ==
    /\ spc = "Close"
    /\ spc' = "Wait"
    /\ shutdownBroadcast' = "closed"
    /\ closes' = closes + 1
    /\ UNCHANGED <<runLoadMonitor, runWebServer, waitGroup, err, retErr, registered,
                   sigPending, loadMonitor, worker, result, loadLogged, failedOpen,
                   viaStop, regVars, lruVars, netVars>>

\* waitGroup.Wait(); return err
WaitReturn ==
    /\ spc = "Wait"
    /\ waitGroup = 0
    /\ spc' = "done"
    /\ retErr' = err
    /\ UNCHANGED <<runLoadMonitor, runWebServer, shutdownBroadcast, closes, waitGroup,
                   err, registered, sigPending, loadMonitor, worker, result, loadLogged,
                   failedOpen, viaStop, regVars, lruVars, netVars>>

(***************************************************************************)
(* The load monitor goroutine.                                             *)
(***************************************************************************)
\* its first statement: waitGroup.Done()
LoadMonitorStart ==
    /\ loadMonitor = "spawned"
    /\ loadMonitor' = "ticking"
    /\ waitGroup' = waitGroup - 1
    /\ UNCHANGED <<spc, runLoadMonitor, runWebServer, shutdownBroadcast, closes, err,
                   retErr, registered, sigPending, worker, result, loadLogged, failedOpen,
                   viaStop, regVars, lruVars, netVars>>

\* case <-ticker.C: logServerLoad(tunnelServer)
LoadMonitorTick ==
    /\ loadMonitor = "ticking"
    /\ loadLogged' = TRUE
    /\ UNCHANGED <<spc, runLoadMonitor, runWebServer, shutdownBroadcast, closes, waitGroup,
                   err, retErr, registered, sigPending, loadMonitor, worker, result,
                   failedOpen, viaStop, regVars, lruVars, netVars>>

\* case <-shutdownBroadcast: return
LoadMonitorExit ==
    /\ loadMonitor = "ticking"
    /\ shutdownBroadcast = "closed"
    /\ loadMonitor' = "exited"
    /\ UNCHANGED <<spc, runLoadMonitor, runWebServer, shutdownBroadcast, closes, waitGroup,
                   err, retErr, registered, sigPending, worker, result, loadLogged,
                   failedOpen, viaStop, regVars, lruVars, netVars>>

(***************************************************************************)
(* The web server and tunnel server goroutines.  RunWebServer and          *)
(* TunnelServer.Run run until shutdownBroadcast is closed, or fail.        *)
(***************************************************************************)
\* the server function fails and returns its error
WorkerFails(w) ==
    /\ worker[w] = "running"
    /\ worker' = [worker EXCEPT ![w] = "returned"]
    /\ result' = [result EXCEPT ![w] = ErrorOf(w)]
    /\ failedOpen' = [failedOpen EXCEPT ![w] = (shutdownBroadcast = "open")]
    /\ UNCHANGED <<spc, runLoadMonitor, runWebServer, shutdownBroadcast, closes, waitGroup,
                   err, retErr, registered, sigPending, loadMonitor, loadLogged, viaStop,
                   regVars, lruVars, netVars>>

\* the server function observes the closed shutdownBroadcast and returns nil
WorkerStops(w) ==
    /\ worker[w] = "running"
    /\ shutdownBroadcast = "closed"
    /\ worker' = [worker EXCEPT ![w] = "returned"]
    /\ result' = [result EXCEPT ![w] = "nil"]
    /\ UNCHANGED <<spc, runLoadMonitor, runWebServer, shutdownBroadcast, closes, waitGroup,
                   err, retErr, registered, sigPending, loadMonitor, loadLogged, failedOpen,
                   viaStop, regVars, lruVars, netVars>>

\* the worker as it would be with a blocking send, errors <- err
WorkerPostBlocking(w) ==
    /\ worker[w] = "returned"
    /\ spc = "Parked"
    /\ spc' = "Close"
    /\ err' = result[w]
    /\ waitGroup' = waitGroup - 1
    /\ worker' = [worker EXCEPT ![w] = "exited"]
    /\ UNCHANGED <<runLoadMonitor, runWebServer, shutdownBroadcast, closes, retErr,
                   registered, sigPending, loadMonitor, result, loadLogged, failedOpen,
                   viaStop, regVars, lruVars, netVars>>

\* the worker as it would be if a late result replaced the one already taken
WorkerPostOverwrites(w) ==
    /\ worker[w] = "returned"
    /\ spc' = IF spc = "Parked" THEN "Close" ELSE spc
    /\ err' = result[w]
    /\ waitGroup' = waitGroup - 1
    /\ worker' = [worker EXCEPT ![w] = "exited"]
    /\ UNCHANGED <<runLoadMonitor, runWebServer, shutdownBroadcast, closes, retErr,
                   registered, sigPending, loadMonitor, result, loadLogged, failedOpen,
                   viaStop, regVars, lruVars, netVars>>

\* select { case errors <- err: default: } and the deferred waitGroup.Done():
\* the send on the unbuffered channel succeeds only while the supervisor is
\* blocked in its select, which then takes the errors case
WorkerPost(w) ==
    /\ worker[w] = "returned"
    /\ IF spc = "Parked"
         THEN spc' = "Close" /\ err' = result[w]
         ELSE UNCHANGED <<spc, err>>
    /\ waitGroup' = waitGroup - 1
    /\ worker' = [worker EXCEPT ![w] = "exited"]
    /\ UNCHANGED <<runLoadMonitor, runWebServer, shutdownBroadcast, closes, retErr,
                   registered, sigPending, loadMonitor, result, loadLogged, failedOpen,
                   viaStop, regVars, lruVars, netVars>>

SupNext ==
    \/ \E i \in 1..Len(BootSteps), ok \in BOOLEAN : Bootstrap(i, ok)
    \/ SpawnLoadMonitor
    \/ SpawnWebServer
    \/ SpawnTunnelServer
    \/ Notify
    \/ Select
    \/ \E sig \in Signals : SignalArrives(sig)
    \/ Reload
    \/ LogLoad
    \/ CloseBroadcast
    \/ WaitReturn
    \/ LoadMonitorStart
    \/ LoadMonitorTick
    \/ LoadMonitorExit
    \/ \E w \in Workers : WorkerFails(w)
    \/ \E w \in Workers : WorkerStops(w)
    \/ \E w \in Workers : WorkerPost(w)

\* the systemStopSignal case of the select statement
SelectStop == Select /\ spc' = "Close"

\* the goroutines are scheduled: a statement that can run does run; the
\* select statement chooses among its ready cases at random, so a case that
\* is ready again and again is chosen in the end.  Worker failures and the
\* arrival of signals are left to the environment.
SupFairness ==
    /\ WF_vars(\E i \in 1..Len(BootSteps) : Bootstrap(i, TRUE))
    /\ WF_vars(SpawnLoadMonitor) /\ WF_vars(SpawnWebServer) /\ WF_vars(SpawnTunnelServer)
    /\ WF_vars(Notify) /\ WF_vars(Select) /\ SF_vars(SelectStop)
    /\ WF_vars(Reload) /\ WF_vars(LogLoad)
    /\ WF_vars(CloseBroadcast) /\ WF_vars(WaitReturn)
    /\ WF_vars(LoadMonitorStart) /\ WF_vars(LoadMonitorExit)
    /\ \A w \in Workers : WF_vars(WorkerStops(w)) /\ WF_vars(WorkerPost(w))

(***************************************************************************)
(* Claims about the supervisor.                                            *)
(***************************************************************************)
WorkersExited == \A w \in Workers : worker[w] \in {"none", "exited"}

AllExited == WorkersExited /\ loadMonitor \in {"none", "exited"}

AnyFailedOpen == \E w \in Workers : failedOpen[w]

\* C1 as stated: once a spawned worker has terminated with an error while
\* the supervisor was still running its services, the supervisor eventually
\* closes shutdownBroadcast, the web and tunnel workers exit, and RunServices
\* returns the error of a worker that failed.
C1_WorkerFailureShutsDown ==
    AnyFailedOpen ~>
        /\ shutdownBroadcast = "closed"
        /\ WorkersExited
        /\ spc = "done"
        /\ retErr \in {ErrorOf(w) : w \in {v \in Workers : failedOpen[v]}}

\* C2 as stated: when RunServices has returned from the running state, no
\* goroutine it spawned is still running.
C2_AllJoinedAtDone == (spc = "done") => AllExited

\* C3: shutdownBroadcast is closed at most once; once the supervisor has
\* received the stop signal, shutdownBroadcast is closed once, every
\* goroutine that selects on it returns, the wait on waitGroup completes and
\* RunServices returns nil; and a stop signal buffered while the supervisor
\* is in its loop is received unless a worker has failed.
C3_SignalShutdown ==
    /\ [](closes <= 1)
    /\ viaStop ~>
          /\ spc = "done"
          /\ retErr = "nil"
          /\ closes = 1
          /\ shutdownBroadcast = "closed"
          /\ waitGroup = 0
          /\ AllExited
    /\ (sigPending["stop"] /\ spc \in InLoop) ~> (viaStop \/ AnyFailedOpen)

\* C3 witness: with all three goroutines configured and no worker failure,
\* a stop signal has ended RunServices with nil and every goroutine has exited
C3_Witness ==
    /\ runLoadMonitor /\ runWebServer
    /\ viaStop /\ ~AnyFailedOpen
    /\ spc = "done" /\ retErr = "nil" /\ closes = 1
    /\ AllExited

\* C27: a worker makes one attempt to post its result, which never blocks,
\* and exits with a waitGroup.Done whether or not the post was taken; the
\* error RunServices returns is the first one delivered, later ones are
\* dropped; the wait on the waitGroup ends once shutdownBroadcast is closed.
C27_FirstErrorWins ==
    /\ [](\A w \in Workers : worker[w] = "returned" => ENABLED WorkerPost(w))
    /\ [][\A w \in Workers :
            (worker[w] = "returned" /\ worker'[w] # "returned")
               => /\ worker'[w] = "exited"
                  /\ waitGroup' = waitGroup - 1
                  /\ IF spc = "Parked"
                        THEN spc' = "Close" /\ err' = result[w]
                        ELSE (spc' = spc /\ err' = err)]_vars
    /\ [][(spc = "Close" \/ spc = "Wait") => err' = err]_vars
    /\ [](spc = "done" => retErr = err)
    /\ (shutdownBroadcast = "closed") ~> (spc = "done" /\ waitGroup = 0 /\ WorkersExited)

\* C27 witness: both workers failed while the service was up, the error of
\* the web server was delivered and returned, the other one was dropped
C27_Witness ==
    /\ spc = "done" /\ retErr = "webErr"
    /\ failedOpen["web"] /\ failedOpen["tun"]
    /\ WorkersExited /\ waitGroup = 0

\* C24: Reload calls the reload of every component that has a filename,
\* whether or not the reload of a component before it failed: a reload that
\* succeeds installs the new state, one that fails leaves the component as
\* it was; and whatever the outcome the supervisor goes back to its select
\* with shutdownBroadcast open.
C24_ReloadContained ==
    [][/\ \A ok \in [Components -> BOOLEAN] :
            ReloadWith(ok) =>
                /\ \A c \in Components :
                       compState'[c] = IF filenames[c] /\ ok[c]
                                          THEN "reloaded"
                                          ELSE compState[c]
                /\ spc' = "Select"
       /\ spc = "Reload" =>
            /\ spc' \in InLoop
            /\ shutdownBroadcast' = "open" /\ closes' = 0
            /\ err' = err /\ retErr' = retErr
      ]_vars

\* C24 witness: with the three filenames configured the traffic rules have
\* failed every reload and kept their first state, the two components after
\* them have reloaded, and the supervisor is in its loop
C24_Witness ==
    /\ \A c \in Components : filenames[c]
    /\ compState = [c \in Components |-> IF c = "trafficRules" THEN "initial" ELSE "reloaded"]
    /\ spc \in InLoop /\ shutdownBroadcast = "open"

(***************************************************************************)
(* ThrottledConn (net.go:841-915).  Read works on unlimitedReadBytes,      *)
(* limitingReads and limitedReader, Write has the same code on its own     *)
(* three fields and shares nothing with Read.  The model follows the       *)
(* fields of one direction, tdir, "r" (Read) or "w" (Write), chosen when   *)
(* the connection is made.                                                 *)
(***************************************************************************)
Dirs == {"r", "w"}
\* rates in bytes per second: 0 turns throttling off for the direction
Rates == {0, 1}
Budgets == {0, MaxBudget}
Lens == 0..MaxLen
\* nesting depth at which the goroutine stack is exhausted; above any depth
\* a call with a non-empty buffer reaches
MaxDepth == MaxBudget + 2

ThrInit ==
    /\ tBuilt = FALSE
    /\ tdir = "r"
    /\ tRate = 0
    /\ tUnlimited = 0
    /\ tLimiting = 0
    /\ tpc = [g \in Procs |-> "idle"]
    /\ tlen = [g \in Procs |-> 0]
    /\ tsubs = [g \in Procs |-> 0]
    /\ tfirstLeft = [g \in Procs |-> FALSE]
    /\ tsawLimiting = [g \in Procs |-> FALSE]
    /\ tvia = [g \in Procs |-> "none"]

\* a constructor that wraps the conn in a token bucket whatever the rate
LimitedReaderAlwaysBucket(rate) == "limiter"

\* net.go:860-876: the limited reader (writer) is the wrapped conn itself for
\* rate 0 and a token bucket reader (writer) around it otherwise
LimitedReaderOf(rate) == IF rate = 0 THEN "raw" ELSE "limiter"

\* a goroutine stack overflow is fatal to the process
ThrRunning == \A g \in Procs : tpc[g] # "overflow"

\* NewThrottledConn with budget u and rate r for the direction d
NewThrottledConn(d, u, r) ==
    /\ ~tBuilt
    /\ tBuilt' = TRUE
    /\ tdir' = d
    /\ tRate' = r
    /\ tUnlimited' = u
    /\ tLimiting' = 0
    /\ UNCHANGED <<tpc, tlen, tsubs, tfirstLeft, tsawLimiting, tvia,
                   regVars, lruVars, supVars, amcVars, dlVars, auxVars>>

\* a Read that ends with conn.Conn.Read(buffer) instead
LimitedIORaw(g) == tvia' = [tvia EXCEPT ![g] = "raw"]

\* net.go:900 / 914: return conn.limitedReader.Read(buffer); every nested
\* call returns this result unchanged
LimitedIO(g) == tvia' = [tvia EXCEPT ![g] = LimitedReaderOf(tRate)]

\* a goroutine calls Read (Write) with a buffer of n bytes and executes
\* net.go:892 / 906, atomic.LoadInt32(&conn.limitingReads) == 0; with the
\* flag set it goes on to line 900 / 914
ThrottledCall(g, n) ==
    /\ tBuilt /\ ThrRunning
    /\ tpc[g] = "idle"
    /\ tlen' = [tlen EXCEPT ![g] = n]
    /\ tsawLimiting' = [tsawLimiting EXCEPT ![g] = tLimiting = 1]
    /\ IF tLimiting = 0
          THEN /\ tpc' = [tpc EXCEPT ![g] = "add"]
               /\ UNCHANGED tvia
          ELSE /\ tpc' = [tpc EXCEPT ![g] = "ret"]
               /\ LimitedIO(g)
    /\ UNCHANGED <<tBuilt, tdir, tRate, tUnlimited, tLimiting, tsubs, tfirstLeft,
                   regVars, lruVars, supVars, amcVars, dlVars, auxVars>>

\* net.go:892 / 906 in a nested call
ThrottledLoad(g) ==
    /\ ThrRunning
    /\ tpc[g] = "load"
    /\ IF tLimiting = 0
          THEN /\ tpc' = [tpc EXCEPT ![g] = "add"]
               /\ UNCHANGED tvia
          ELSE /\ tpc' = [tpc EXCEPT ![g] = "ret"]
               /\ LimitedIO(g)
    /\ UNCHANGED <<tBuilt, tdir, tRate, tUnlimited, tLimiting, tlen, tsubs,
                   tfirstLeft, tsawLimiting, regVars, lruVars, supVars, amcVars, dlVars, auxVars>>

\* net.go:893-897 / 907-911: atomic.AddInt64(&conn.unlimitedReadBytes, -len),
\* then either the store of the flag or "return conn.Read(buffer)", which is
\* ThrottledConn.Read again (conn is the *ThrottledConn)
ThrottledAdd(g) ==
    /\ ThrRunning
    /\ tpc[g] = "add"
    /\ LET left == tUnlimited - tlen[g]
       IN /\ tUnlimited' = left
          /\ tsubs' = [tsubs EXCEPT ![g] = @ + 1]
          /\ tfirstLeft' = [tfirstLeft EXCEPT ![g] = IF tsubs[g] = 0 THEN left > 0 ELSE @]
          /\ tpc' = [tpc EXCEPT ![g] = IF left <= 0 THEN "store"
                                       ELSE IF tsubs[g] + 1 >= MaxDepth THEN "overflow"
                                       ELSE "load"]
    /\ UNCHANGED <<tBuilt, tdir, tRate, tLimiting, tlen, tsawLimiting, tvia,
                   regVars, lruVars, supVars, amcVars, dlVars, auxVars>>

\* net.go:894 / 908: atomic.StoreInt32(&conn.limitingReads, 1), followed by
\* line 900 / 914
ThrottledStore(g) ==
    /\ ThrRunning
    /\ tpc[g] = "store"
    /\ tLimiting' = 1
    /\ tpc' = [tpc EXCEPT ![g] = "ret"]
    /\ LimitedIO(g)
    /\ UNCHANGED <<tBuilt, tdir, tRate, tUnlimited, tlen, tsubs, tfirstLeft,
                   tsawLimiting, regVars, lruVars, supVars, amcVars, dlVars, auxVars>>

\* the outermost call returns to its caller what the reader returned
ThrottledReturn(g) ==
    /\ ThrRunning
    /\ tpc[g] = "ret"
    /\ tpc' = [tpc EXCEPT ![g] = "idle"]
    /\ tlen' = [tlen EXCEPT ![g] = 0]
    /\ tsubs' = [tsubs EXCEPT ![g] = 0]
    /\ tfirstLeft' = [tfirstLeft EXCEPT ![g] = FALSE]
    /\ tsawLimiting' = [tsawLimiting EXCEPT ![g] = FALSE]
    /\ tvia' = [tvia EXCEPT ![g] = "none"]
    /\ UNCHANGED <<tBuilt, tdir, tRate, tUnlimited, tLimiting, regVars, lruVars, supVars, amcVars, dlVars, auxVars>>

ThrNext ==
    \/ \E d \in Dirs, u \in Budgets, r \in Rates : NewThrottledConn(d, u, r)
    \/ \E g \in Procs, n \in Lens : ThrottledCall(g, n)
    \/ \E g \in Procs : ThrottledLoad(g)
    \/ \E g \in Procs : ThrottledAdd(g)
    \/ \E g \in Procs : ThrottledStore(g)
    \/ \E g \in Procs : ThrottledReturn(g)

(***************************************************************************)
(* Claims about the throttle.                                              *)
(***************************************************************************)
\* C11: a Read (Write) that finds the limiting flag 0 and whose subtraction
\* of len(buffer) leaves the counter above zero performs its I/O on the raw
\* handle in the same call and has decremented the counter exactly once.
C11_UnmeteredReadRaw ==
    \A g \in Procs :
        (tpc[g] = "ret" /\ ~tsawLimiting[g] /\ tfirstLeft[g])
            => (tvia[g] = "raw" /\ tsubs[g] = 1)

\* C12: under any interleaving of callers the limiting flag, once 1, stays 1,
\* and a call that begins with the flag at 1 subtracts nothing and does its
\* I/O on limitedReader (limitedWriter), which for a non-zero rate is the
\* token bucket and not the raw handle.
C12_LimitingIsSticky ==
    [][ /\ (tLimiting = 1 => tLimiting' = 1)
        /\ \A g \in Procs :
              (tLimiting = 1 /\ tpc[g] = "idle" /\ tpc'[g] # "idle")
                  => /\ tpc'[g] = "ret"
                     /\ tUnlimited' = tUnlimited
                     /\ tvia'[g] # "none"
                     /\ (tRate > 0 => tvia'[g] = "limiter") ]_vars

\* C12 witness: with a non-zero rate and the flag set, a call that began after
\* the flag was set has gone through the token bucket while another goroutine
\* is still inside a call that began before
C12_Witness ==
    /\ tRate > 0 /\ tLimiting = 1
    /\ \E g, h \in Procs :
          /\ g # h
          /\ tpc[g] = "ret" /\ tsawLimiting[g] /\ tvia[g] = "limiter" /\ tsubs[g] = 0
          /\ tpc[h] \in {"add", "load", "store"}

\* C13: with rate 0 for the direction, every Read (Write) that does I/O does
\* it on the raw wrapped handle, whatever the budget and the bytes moved so far.
C13_RateZeroUnthrottled ==
    \A g \in Procs : (tRate = 0 /\ tpc[g] = "ret") => tvia[g] = "raw"

\* C13 witness: rate 0, the budget used up and the flag set, and a call that
\* began after that has done its I/O on the raw handle
C13_Witness ==
    /\ tBuilt /\ tRate = 0 /\ tLimiting = 1 /\ tUnlimited < 0
    /\ \E g \in Procs : tpc[g] = "ret" /\ tsawLimiting[g] /\ tvia[g] = "raw"

\* C29: every Read and Write call ends its check of the unmetered budget
\* after finitely many steps, for every buffer length (0 included), budget
\* and rate, and then does one I/O on the underlying reader or writer.
C29_CallTerminates ==
    \A g \in Procs :
        /\ tpc[g] # "overflow"
        /\ (tpc[g] = "ret" => tvia[g] # "none")

(***************************************************************************)
(* ActivityMonitoredConn (net.go:753-832).  The clock only moves forward.  *)
(* Each call is split at its reads of the clock and its writes to shared   *)
(* state, so that concurrent Read and Write calls interleave as the        *)
(* goroutines of the program do.  A conn is used by one goroutine that     *)
(* reads from it and one that writes to it.                                *)
(***************************************************************************)
Callers == {"reader", "writer"}
\* inactivity timeouts: 0 turns the read deadline off
Timeouts == {0, 2}
Times == 0..MaxTime

AMCInit ==
    /\ aBuilt = FALSE
    /\ now = 0
    /\ inactivityTimeout = 0
    /\ activeOnWrite = FALSE
    /\ startTime = 0
    /\ lastActivityTime = 0
    /\ readDeadline = 0
    /\ lruEntry = 0
    /\ apc = [g \in Callers |-> "idle"]
    /\ aok = [g \in Callers |-> FALSE]
    /\ at = [g \in Callers |-> 0]
    /\ aeff = [g \in Callers |-> {}]

\* time passes
Tick ==
    /\ now < MaxTime
    /\ now' = now + 1
    /\ UNCHANGED <<aBuilt, inactivityTimeout, activeOnWrite, startTime, lastActivityTime,
                   readDeadline, lruEntry, apc, aok, at, aeff,
                   regVars, lruVars, supVars, thrVars, dlVars, auxVars>>

\* the list of an LRUConns to which MaxEntries conns have been added
AddedAll == [i \in 1..MaxEntries |-> MaxEntries + 1 - i]

\* NewActivityMonitoredConn(conn, d, w, e).  For e = 0 the entry is nil;
\* otherwise the caller has added MaxEntries conns to an LRUConns and passes
\* the entry of the e-th (the first one, which is the oldest of the list).
NewActivityMonitoredConn(d, w, e) ==
    /\ ~aBuilt /\ list = <<>> /\ numEntries = 0
    /\ aBuilt' = TRUE
    /\ inactivityTimeout' = d
    /\ activeOnWrite' = w
    /\ readDeadline' = IF d > 0 THEN now + d ELSE readDeadline
    /\ startTime' = now
    /\ lastActivityTime' = now
    /\ lruEntry' = e
    /\ IF e = 0
          THEN UNCHANGED <<list, numEntries, recency>>
          ELSE /\ list' = AddedAll
               /\ numEntries' = MaxEntries
               /\ recency' = AddedAll
    /\ UNCHANGED <<now, apc, aok, at, aeff,
                   lruMutex, lpc, larg, oldest, removed, closed, closedTwice, inert,
                   regVars, supVars, thrVars, dlVars, auxVars>>

\* net.go:794
GetActiveDuration == lastActivityTime - startTime

\* where a call goes once it is done with the time and the deadline
AfterActivity == IF lruEntry # 0 THEN "touch" ELSE "ret"

\* a Read that goes on as if err were nil whatever conn.Conn.Read returned
AMCReadIgnoresError(g, ok) ==
    /\ g = "reader"
    /\ aBuilt /\ apc[g] = "idle"
    /\ aok' = [aok EXCEPT ![g] = ok]
    /\ apc' = [apc EXCEPT ![g] = "store"]
    /\ at' = [at EXCEPT ![g] = now]
    /\ UNCHANGED <<aBuilt, now, inactivityTimeout, activeOnWrite, startTime,
                   lastActivityTime, readDeadline, lruEntry, aeff,
                   regVars, lruVars, supVars, thrVars, dlVars, auxVars>>

\* net.go:798-801: conn.Conn.Read returns with err == nil (ok) or an error;
\* after a success the goroutine reads the clock for line 801
AMCRead(g, ok) ==
    /\ g = "reader"
    /\ aBuilt /\ apc[g] = "idle"
    /\ aok' = [aok EXCEPT ![g] = ok]
    /\ IF ok
          THEN /\ apc' = [apc EXCEPT ![g] = "store"]
               /\ at' = [at EXCEPT ![g] = now]
          ELSE /\ apc' = [apc EXCEPT ![g] = "ret"]
               /\ UNCHANGED at
    /\ UNCHANGED <<aBuilt, now, inactivityTimeout, activeOnWrite, startTime,
                   lastActivityTime, readDeadline, lruEntry, aeff,
                   regVars, lruVars, supVars, thrVars, dlVars, auxVars>>

\* a Write that treats the conn as active on write whatever the field says
AMCWriteAlwaysActive(g, ok) ==
    /\ g = "writer"
    /\ aBuilt /\ apc[g] = "idle"
    /\ aok' = [aok EXCEPT ![g] = ok]
    /\ IF ok
          THEN /\ apc' = [apc EXCEPT ![g] = "store"]
               /\ at' = [at EXCEPT ![g] = now]
          ELSE /\ apc' = [apc EXCEPT ![g] = "ret"]
               /\ UNCHANGED at
    /\ UNCHANGED <<aBuilt, now, inactivityTimeout, activeOnWrite, startTime,
                   lastActivityTime, readDeadline, lruEntry, aeff,
                   regVars, lruVars, supVars, thrVars, dlVars, auxVars>>

\* net.go:815-820: conn.Conn.Write returns; after a success on a conn that is
\* active on write the goroutine reads the clock for line 820
AMCWrite(g, ok) ==
    /\ g = "writer"
    /\ aBuilt /\ apc[g] = "idle"
    /\ aok' = [aok EXCEPT ![g] = ok]
    /\ IF ok /\ activeOnWrite
          THEN /\ apc' = [apc EXCEPT ![g] = "store"]
               /\ at' = [at EXCEPT ![g] = now]
          ELSE /\ apc' = [apc EXCEPT ![g] = IF ok THEN AfterActivity ELSE "ret"]
               /\ UNCHANGED at
    /\ UNCHANGED <<aBuilt, now, inactivityTimeout, activeOnWrite, startTime,
                   lastActivityTime, readDeadline, lruEntry, aeff,
                   regVars, lruVars, supVars, thrVars, dlVars, auxVars>>

\* a store of the time elapsed since construction instead of the instant
AMCStoreElapsed(g) ==
    /\ apc[g] = "store"
    /\ lastActivityTime' = at[g] - startTime
    /\ aeff' = [aeff EXCEPT ![g] = @ \cup {"time"}]
    /\ apc' = [apc EXCEPT ![g] = IF inactivityTimeout > 0 THEN "now" ELSE AfterActivity]
    /\ at' = [at EXCEPT ![g] = 0]
    /\ UNCHANGED <<aBuilt, now, inactivityTimeout, activeOnWrite, startTime,
                   readDeadline, lruEntry, aok,
                   regVars, lruVars, supVars, thrVars, dlVars, auxVars>>

\* net.go:801 / 820: atomic.StoreInt64(&conn.lastActivityTime, <the clock value read>)
AMCStore(g) ==
    /\ apc[g] = "store"
    /\ lastActivityTime' = at[g]
    /\ aeff' = [aeff EXCEPT ![g] = @ \cup {"time"}]
    /\ apc' = [apc EXCEPT ![g] = IF inactivityTimeout > 0 THEN "now" ELSE AfterActivity]
    /\ at' = [at EXCEPT ![g] = 0]
    /\ UNCHANGED <<aBuilt, now, inactivityTimeout, activeOnWrite, startTime,
                   readDeadline, lruEntry, aok,
                   regVars, lruVars, supVars, thrVars, dlVars, auxVars>>

\* net.go:804 / 823: time.Now() of the deadline
AMCNow(g) ==
    /\ apc[g] = "now"
    /\ at' = [at EXCEPT ![g] = now]
    /\ apc' = [apc EXCEPT ![g] = "setdl"]
    /\ UNCHANGED <<aBuilt, now, inactivityTimeout, activeOnWrite, startTime,
                   lastActivityTime, readDeadline, lruEntry, aok, aeff,
                   regVars, lruVars, supVars, thrVars, dlVars, auxVars>>

\* net.go:804 / 823: conn.Conn.SetReadDeadline(<that instant>.Add(conn.inactivityTimeout))
AMCSetReadDeadline(g) ==
    /\ apc[g] = "setdl"
    /\ readDeadline' = at[g] + inactivityTimeout
    /\ aeff' = [aeff EXCEPT ![g] = @ \cup {"deadline"}]
    /\ apc' = [apc EXCEPT ![g] = AfterActivity]
    /\ at' = [at EXCEPT ![g] = 0]
    /\ UNCHANGED <<aBuilt, now, inactivityTimeout, activeOnWrite, startTime,
                   lastActivityTime, lruEntry, aok,
                   regVars, lruVars, supVars, thrVars, dlVars, auxVars>>

\* net.go:807-809 / 827-829: conn.lruEntry.Touch(), which takes the mutex of
\* the LRUConns, moves the entry to the front and releases the mutex
AMCTouch(g) ==
    /\ apc[g] = "touch"
    /\ lruMutex = 0
    /\ list' = MoveToFront(list, lruEntry)
    /\ recency' = <<lruEntry>> \o Without(recency, lruEntry)
    /\ aeff' = [aeff EXCEPT ![g] = @ \cup {"touch"}]
    /\ apc' = [apc EXCEPT ![g] = "ret"]
    /\ UNCHANGED <<aBuilt, now, inactivityTimeout, activeOnWrite, startTime,
                   lastActivityTime, readDeadline, lruEntry, aok, at,
                   lruMutex, numEntries, lpc, larg, oldest, removed, closed, closedTwice,
                   inert, regVars, supVars, thrVars, dlVars, auxVars>>

\* net.go:811 / 831: return n, err
AMCReturn(g) ==
    /\ apc[g] = "ret"
    /\ apc' = [apc EXCEPT ![g] = "idle"]
    /\ aok' = [aok EXCEPT ![g] = FALSE]
    /\ aeff' = [aeff EXCEPT ![g] = {}]
    /\ UNCHANGED <<aBuilt, now, inactivityTimeout, activeOnWrite, startTime,
                   lastActivityTime, readDeadline, lruEntry, at,
                   regVars, lruVars, supVars, thrVars, dlVars, auxVars>>

AMCNext ==
    \/ Tick
    \/ \E d \in Timeouts, w \in BOOLEAN, e \in {0, 1} :
          NewActivityMonitoredConn(d, w, e)
    \/ \E g \in Callers, ok \in BOOLEAN : AMCRead(g, ok)
    \/ \E g \in Callers, ok \in BOOLEAN : AMCWrite(g, ok)
    \/ \E g \in Callers : AMCStore(g)
    \/ \E g \in Callers : AMCNow(g)
    \/ \E g \in Callers : AMCSetReadDeadline(g)
    \/ \E g \in Callers : AMCTouch(g)
    \/ \E g \in Callers : AMCReturn(g)

(***************************************************************************)
(* Claims about the activity monitor.                                      *)
(***************************************************************************)
\* the side effects of a successful Read
ActivityEffects ==
    {"time"} \cup (IF inactivityTimeout > 0 THEN {"deadline"} ELSE {})
             \cup (IF lruEntry # 0 THEN {"touch"} ELSE {})

\* what the steps of a call by caller g write: the clock value the call read
\* into lastActivityTime, a later clock value plus the timeout into the read
\* deadline, and the entry to the front of the LRU list
ActivityWrites(g) ==
    /\ (apc[g] = "store" /\ apc'[g] # "store")
          => (at[g] <= now /\ lastActivityTime' = at[g])
    /\ (apc[g] = "setdl" /\ apc'[g] # "setdl")
          => (at[g] <= now /\ readDeadline' = at[g] + inactivityTimeout)
    /\ (apc[g] = "touch" /\ apc'[g] # "touch")
          => (list' # <<>> /\ Head(list') = lruEntry)

\* C14: a successful Read sets lastActivityTime to the current time, sets the
\* read deadline to now + D when D > 0 and touches the LRU entry when there
\* is one; a failed Read has none of these effects and changes neither
\* lastActivityTime nor the read deadline nor the LRU order.
C14_ActivityOnRead ==
    /\ [](apc["reader"] = "ret"
             => aeff["reader"] = IF aok["reader"] THEN ActivityEffects ELSE {})
    /\ [][ /\ ActivityWrites("reader")
           /\ (apc["reader"] = "idle" /\ apc'["reader"] = "ret")
                 => /\ ~aok'["reader"]
                    /\ lastActivityTime' = lastActivityTime
                    /\ readDeadline' = readDeadline
                    /\ list' = list ]_vars

\* C14 witness: a successful Read on a conn with a timeout and an LRU entry
\* has stored a later time, moved the deadline and brought the entry to the front
C14_Witness ==
    /\ apc["reader"] = "ret" /\ aok["reader"] /\ apc["writer"] = "idle"
    /\ inactivityTimeout > 0 /\ lruEntry # 0
    /\ aeff["reader"] = {"time", "deadline", "touch"}
    /\ lastActivityTime > startTime
    /\ readDeadline > startTime + inactivityTimeout
    /\ Head(list) = lruEntry

\* C15: a successful Write with activeOnWrite = false leaves lastActivityTime
\* and the read deadline alone and still touches the LRU entry; with
\* activeOnWrite = true it has the effects of a successful Read; a failed
\* Write changes none of the three.
C15_ActivityOnWrite ==
    /\ [](apc["writer"] = "ret"
             => aeff["writer"] = IF ~aok["writer"] THEN {}
                                 ELSE IF activeOnWrite THEN ActivityEffects
                                 ELSE ActivityEffects \ {"time", "deadline"})
    /\ [][ /\ ActivityWrites("writer")
           /\ (apc["writer"] = "idle" /\ apc'["writer"] # "idle")
                 => /\ lastActivityTime' = lastActivityTime
                    /\ readDeadline' = readDeadline
                    /\ list' = list
                    /\ (apc'["writer"] = "store") = (aok'["writer"] /\ activeOnWrite)
                    /\ (apc'["writer"] = "ret") = (~aok'["writer"] \/ (~activeOnWrite /\ lruEntry = 0)) ]_vars

\* C15 witness: a successful Write on a conn that is not active on write, long
\* after construction, has only brought the LRU entry to the front
C15_Witness ==
    /\ apc["writer"] = "ret" /\ aok["writer"] /\ apc["reader"] = "idle"
    /\ ~activeOnWrite /\ inactivityTimeout > 0 /\ lruEntry # 0
    /\ aeff["writer"] = {"touch"}
    /\ Head(list) = lruEntry
    /\ lastActivityTime = startTime /\ now > startTime
    /\ readDeadline = startTime + inactivityTimeout

C30_ActivityMonotonic ==
    [][(aBuilt /\ activeOnWrite)
          => (lastActivityTime' >= lastActivityTime /\ readDeadline' >= readDeadline)]_vars

(***************************************************************************)
(* ResumeDownload (net.go:551-694).  One call runs at a time; it is split  *)
(* at its file operations and at the request, so that every state the      *)
(* disk is left in when a call fails part of the way is a state of the     *)
(* model.  A byte of version v of the resource at offset i is 10*v + i.    *)
(***************************************************************************)
Versions == {1, 2}
\* the ETag of version v is v; 0 stands for no ETag (nil, "", no header)
Hints == {0} \cup Versions
NoFile == <<-1>>
Exists(f) == f # NoFile
Size(f) == IF Exists(f) THEN Len(f) ELSE 0
Content(v) == [i \in 1..FileLen |-> 10 * v + i]
\* the entity a server may send along with status 416
ErrorPage == <<0>>
\* T.part grows by an error page each time a 416 answer is copied into it;
\* the model stops the growth at this size
MaxPartLen == FileLen + Len(ErrorPage)

NoRequest == [range |-> -1, ifMatch |-> 0, ifNoneMatch |-> 0]
NoReturn == [n |-> 0, etag |-> 0, err |-> "running"]
NoPrev == [kind |-> "none", k |-> 0, ver |-> 0, fresh |-> FALSE, wrote |-> FALSE, hint |-> 0]

DLInit ==
    /\ fT = NoFile
    /\ fPart = NoFile
    /\ fEtag = 0
    /\ srcVer = 1
    /\ dpc = "idle"
    /\ dhint = 0
    /\ dsize = 0
    /\ dpartialETag = 0
    /\ dreq = NoRequest
    /\ dstatus = 0
    /\ detag = 0
    /\ dbody = <<>>
    /\ dn = 0
    /\ dret = NoReturn
    /\ dT0 = NoFile
    /\ dpart0 = NoFile
    /\ dfresh = FALSE
    /\ dwrote = FALSE
    /\ dver = 0
    /\ prev = NoPrev

\* the server answers a range request for the version v it holds: 412 when
\* If-Match names another ETag, 304 when If-None-Match names this one, 206
\* with the rest of the resource, 416 when the range starts at or past its end
ServerStatus(req, v) ==
    IF req.ifMatch # 0 /\ req.ifMatch # v THEN 412
    ELSE IF req.ifNoneMatch # 0 /\ req.ifNoneMatch = v THEN 304
    ELSE IF req.range < FileLen THEN 206
    ELSE 416

ServerBody(status, req, v, page) ==
    IF status = 206 THEN SubSeq(Content(v), req.range + 1, FileLen)
    ELSE IF status = 416 /\ page THEN ErrorPage
    ELSE <<>>

\* the publisher replaces the resource by another version
SourceChanges(v) ==
    /\ v # srcVer
    /\ srcVer' = v
    /\ UNCHANGED <<fT, fPart, fEtag, dpc, dhint, dsize, dpartialETag, dreq, dstatus,
                   detag, dbody, dn, dret, dT0, dpart0, dfresh, dwrote, dver, prev,
                   regVars, lruVars, supVars, thrVars, amcVars, auxVars>>

\* the call returns (n, etag, err)
Return(n, etag, error) ==
    /\ dpc' = "done"
    /\ dret' = [n |-> n, etag |-> etag, err |-> error]

\* net.go:561-570: os.OpenFile(T.part, O_CREATE|O_APPEND|O_WRONLY) and
\* file.Stat(); out is "ok", "open" (OpenFile fails) or "stat" (Stat fails)
ResumeDownload(hint, out) ==
    /\ dpc = "idle"
    /\ dhint' = hint
    /\ dT0' = fT
    /\ dfresh' = (~Exists(fPart) /\ fEtag = 0)
    /\ IF out = "open"
          THEN /\ Return(0, 0, "open")
               /\ UNCHANGED <<fPart, dsize>>
          ELSE /\ fPart' = IF Exists(fPart) THEN fPart ELSE <<>>
               /\ IF out = "stat"
                     THEN Return(0, 0, "stat") /\ UNCHANGED dsize
                     ELSE dpc' = "stat" /\ dsize' = Size(fPart) /\ UNCHANGED dret
    /\ UNCHANGED <<fT, fEtag, srcVer, dpartialETag, dreq, dstatus, detag, dbody, dn,
                   dpart0, dwrote, dver, prev,
                   regVars, lruVars, supVars, thrVars, amcVars, auxVars>>

\* net.go:575-590: with a non-empty T.part, ioutil.ReadFile(T.part.etag);
\* it fails when the file is absent and may fail (ok = FALSE) when it exists;
\* on failure both files are removed and the call returns an error
DLLoadETag(ok) ==
    /\ dpc = "stat"
    /\ IF dsize = 0
          THEN /\ ok
               /\ dpc' = "request"
               /\ UNCHANGED <<fPart, fEtag, dpartialETag, dret>>
          ELSE IF fEtag # 0 /\ ok
          THEN /\ dpartialETag' = fEtag
               /\ dpc' = "request"
               /\ UNCHANGED <<fPart, fEtag, dret>>
          ELSE /\ fPart' = NoFile
               /\ fEtag' = 0
               /\ Return(0, 0, "etagload")
               /\ UNCHANGED dpartialETag
    /\ UNCHANGED <<fT, srcVer, dhint, dsize, dreq, dstatus, detag, dbody, dn,
                   dT0, dpart0, dfresh, dwrote, dver, prev,
                   regVars, lruVars, supVars, thrVars, amcVars, auxVars>>

\* a request that never carries If-Match
RequestWithoutIfMatch ==
    [range |-> dsize,
     ifMatch |-> 0,
     ifNoneMatch |-> IF dpartialETag = 0 THEN dhint ELSE 0]

\* a request that carries If-None-Match whenever the hint is not empty
RequestBothHeaders ==
    [range |-> dsize,
     ifMatch |-> dpartialETag,
     ifNoneMatch |-> dhint]

\* net.go:592-622: the request and its headers
Request ==
    [range |-> dsize,
     ifMatch |-> dpartialETag,
     ifNoneMatch |-> IF dpartialETag = 0 THEN dhint ELSE 0]

\* net.go:592-641: http.NewRequest, the headers and httpClient.Do; out is
\* "url" (NewRequest fails), "fail" (Do returns an error or a status other
\* than 206, 416, 412, 304) or "answer"; page: a 416 comes with an entity
DLDo(out, page) ==
    /\ dpc = "request"
    /\ page => dsize + Len(ErrorPage) <= MaxPartLen
    /\ dpart0' = fPart
    /\ IF out = "url"
          THEN /\ Return(0, 0, "url")
               /\ UNCHANGED <<dreq, dstatus, detag, dbody, dver>>
          ELSE /\ dreq' = Request
               /\ IF out = "fail"
                     THEN /\ Return(0, 0, "do")
                          /\ UNCHANGED <<dstatus, detag, dbody, dver>>
                     ELSE /\ dstatus' = ServerStatus(Request, srcVer)
                          /\ detag' = srcVer
                          /\ dver' = srcVer
                          /\ dbody' = ServerBody(ServerStatus(Request, srcVer), Request,
                                                 srcVer, page)
                          /\ dpc' = "respond"
                          /\ UNCHANGED dret
    /\ UNCHANGED <<fT, fPart, fEtag, srcVer, dhint, dsize, dpartialETag, dn,
                   dT0, dfresh, dwrote, prev,
                   regVars, lruVars, supVars, thrVars, amcVars, auxVars>>

\* a 304 branch that returns no ETag
DLPreconditionNoETag ==
    /\ dpc = "respond"
    /\ dstatus \in {412, 304}
    /\ fPart' = NoFile
    /\ fEtag' = 0
    /\ IF dstatus = 412
          THEN Return(0, 0, "mismatch")
          ELSE Return(0, 0, "nil")
    /\ UNCHANGED <<fT, srcVer, dhint, dsize, dpartialETag, dreq, dstatus, detag, dbody,
                   dn, dT0, dpart0, dfresh, dwrote, dver, prev,
                   regVars, lruVars, supVars, thrVars, amcVars, auxVars>>

\* a 412 branch that removes the partial file and forgets the ETag file
DLPreconditionKeepsETag ==
    /\ dpc = "respond"
    /\ dstatus \in {412, 304}
    /\ fPart' = NoFile
    /\ IF dstatus = 412
          THEN Return(0, 0, "mismatch")
          ELSE Return(0, detag, "nil")
    /\ UNCHANGED <<fT, fEtag, srcVer, dhint, dsize, dpartialETag, dreq, dstatus, detag,
                   dbody, dn, dT0, dpart0, dfresh, dwrote, dver, prev,
                   regVars, lruVars, supVars, thrVars, amcVars, auxVars>>

\* net.go:643-659: status 412 and status 304
DLPrecondition ==
    /\ dpc = "respond"
    /\ dstatus \in {412, 304}
    /\ fPart' = NoFile
    /\ fEtag' = 0
    /\ IF dstatus = 412
          THEN Return(0, 0, "mismatch")
          ELSE Return(0, detag, "nil")
    /\ UNCHANGED <<fT, srcVer, dhint, dsize, dpartialETag, dreq, dstatus, detag, dbody,
                   dn, dT0, dpart0, dfresh, dwrote, dver, prev,
                   regVars, lruVars, supVars, thrVars, amcVars, auxVars>>

\* net.go:661-663: ioutil.WriteFile(T.part.etag, responseETag); a failure
\* (ok = FALSE) is ignored
DLWriteETag(ok) ==
    /\ dpc = "respond"
    /\ dstatus \in {206, 416}
    /\ fEtag' = IF ok THEN detag ELSE fEtag
    /\ dwrote' = ok
    /\ dpc' = "copy"
    /\ UNCHANGED <<fT, fPart, srcVer, dhint, dsize, dpartialETag, dreq, dstatus, detag,
                   dbody, dn, dret, dT0, dpart0, dfresh, dver, prev,
                   regVars, lruVars, supVars, thrVars, amcVars, auxVars>>

\* net.go:667: io.Copy moves one more byte of the body to the end of T.part
DLCopyByte ==
    /\ dpc = "copy"
    /\ dbody # <<>>
    /\ fPart' = Append(fPart, Head(dbody))
    /\ dbody' = Tail(dbody)
    /\ dn' = dn + 1
    /\ UNCHANGED <<fT, fEtag, srcVer, dpc, dhint, dsize, dpartialETag, dreq, dstatus,
                   detag, dret, dT0, dpart0, dfresh, dwrote, dver, prev,
                   regVars, lruVars, supVars, thrVars, amcVars, auxVars>>

\* net.go:667-674: io.Copy fails after dn bytes, at any offset of the body
DLCopyFail ==
    /\ dpc = "copy"
    /\ Return(dn, 0, "copy")
    /\ UNCHANGED <<fT, fPart, fEtag, srcVer, dhint, dsize, dpartialETag, dreq, dstatus,
                   detag, dbody, dn, dT0, dpart0, dfresh, dwrote, dver, prev,
                   regVars, lruVars, supVars, thrVars, amcVars, auxVars>>

\* net.go:667-682: io.Copy reaches the end of the body, then file.Close()
DLClose(ok) ==
    /\ dpc = "copy"
    /\ dbody = <<>>
    /\ IF ok THEN dpc' = "remove" /\ UNCHANGED dret
             ELSE Return(dn, 0, "close")
    /\ UNCHANGED <<fT, fPart, fEtag, srcVer, dhint, dsize, dpartialETag, dreq, dstatus,
                   detag, dbody, dn, dT0, dpart0, dfresh, dwrote, dver, prev,
                   regVars, lruVars, supVars, thrVars, amcVars, auxVars>>

\* net.go:684: os.Remove(T)
DLRemoveTarget ==
    /\ dpc = "remove"
    /\ fT' = NoFile
    /\ dpc' = "rename"
    /\ UNCHANGED <<fPart, fEtag, srcVer, dhint, dsize, dpartialETag, dreq, dstatus,
                   detag, dbody, dn, dret, dT0, dpart0, dfresh, dwrote, dver, prev,
                   regVars, lruVars, supVars, thrVars, amcVars, auxVars>>

\* net.go:686-689: os.Rename(T.part, T)
DLRename(ok) ==
    /\ dpc = "rename"
    /\ IF ok
          THEN /\ fT' = fPart
               /\ fPart' = NoFile
               /\ dpc' = "rmetag"
               /\ UNCHANGED dret
          ELSE /\ Return(dn, 0, "rename")
               /\ UNCHANGED <<fT, fPart>>
    /\ UNCHANGED <<fEtag, srcVer, dhint, dsize, dpartialETag, dreq, dstatus,
                   detag, dbody, dn, dT0, dpart0, dfresh, dwrote, dver, prev,
                   regVars, lruVars, supVars, thrVars, amcVars, auxVars>>

\* a return that leaves the ETag file behind
DLRemoveETagSkipped ==
    /\ dpc = "rmetag"
    /\ Return(dn, detag, "nil")
    /\ UNCHANGED <<fT, fPart, fEtag, srcVer, dhint, dsize, dpartialETag, dreq, dstatus,
                   detag, dbody, dn, dT0, dpart0, dfresh, dwrote, dver, prev,
                   regVars, lruVars, supVars, thrVars, amcVars, auxVars>>

\* a return that adds the size T.part had at the start to n
DLRemoveETagReturnsTotal ==
    /\ dpc = "rmetag"
    /\ fEtag' = 0
    /\ Return(dsize + dn, detag, "nil")
    /\ UNCHANGED <<fT, fPart, srcVer, dhint, dsize, dpartialETag, dreq, dstatus,
                   detag, dbody, dn, dT0, dpart0, dfresh, dwrote, dver, prev,
                   regVars, lruVars, supVars, thrVars, amcVars, auxVars>>

\* net.go:691-693: os.Remove(T.part.etag); return n, responseETag, nil
DLRemoveETag ==
    /\ dpc = "rmetag"
    /\ fEtag' = 0
    /\ Return(dn, detag, "nil")
    /\ UNCHANGED <<fT, fPart, srcVer, dhint, dsize, dpartialETag, dreq, dstatus,
                   detag, dbody, dn, dT0, dpart0, dfresh, dwrote, dver, prev,
                   regVars, lruVars, supVars, thrVars, amcVars, auxVars>>

\* the caller has the result; what the next call may be compared with is kept
DLDone ==
    /\ dpc = "done"
    /\ dpc' = "idle"
    /\ prev' = [kind |-> IF dret.err = "copy" THEN "interrupted" ELSE "other",
                k |-> dn, ver |-> dver, fresh |-> dfresh, wrote |-> dwrote,
                hint |-> dhint]
    /\ dhint' = 0 /\ dsize' = 0 /\ dpartialETag' = 0 /\ dreq' = NoRequest
    /\ dstatus' = 0 /\ detag' = 0 /\ dbody' = <<>> /\ dn' = 0 /\ dret' = NoReturn
    /\ dT0' = NoFile /\ dpart0' = NoFile /\ dfresh' = FALSE /\ dwrote' = FALSE
    /\ dver' = 0
    /\ UNCHANGED <<fT, fPart, fEtag, srcVer,
                   regVars, lruVars, supVars, thrVars, amcVars, auxVars>>

DLNext ==
    \/ \E v \in Versions : SourceChanges(v)
    \/ \E hint \in Hints, out \in {"ok", "open", "stat"} : ResumeDownload(hint, out)
    \/ \E ok \in BOOLEAN : DLLoadETag(ok)
    \/ \E out \in {"answer", "fail", "url"}, page \in BOOLEAN : DLDo(out, page)
    \/ DLPrecondition
    \/ \E ok \in BOOLEAN : DLWriteETag(ok)
    \/ DLCopyByte
    \/ DLCopyFail
    \/ \E ok \in BOOLEAN : DLClose(ok)
    \/ DLRemoveTarget
    \/ \E ok \in BOOLEAN : DLRename(ok)
    \/ DLRemoveETag
    \/ DLDone

(***************************************************************************)
(* Claims about the download.                                              *)
(***************************************************************************)
\* the errors of a call that come from the disk or the network
IOErrors == {"open", "stat", "etagload", "url", "do", "copy", "close", "rename"}

\* the call before this one began with neither T.part nor T.part.etag, stored
\* the ETag of the response and had its body copy interrupted at offset prev.k
InterruptedFresh == prev.kind = "interrupted" /\ prev.fresh /\ prev.wrote

\* C17: for every offset k, 0 and the full length included, at which the body
\* copy of a download is interrupted, running ResumeDownload again with the
\* same arguments while the source still has the same ETag succeeds and
\* leaves a file T that is byte for byte the resource.
C17_ResumeIdentical ==
    (/\ dpc = "done"
     /\ InterruptedFresh
     /\ prev.ver = dver /\ prev.hint = dhint
     /\ dret.err \notin IOErrors)
        => (dret.err = "nil" /\ fT = Content(dver))

C19_Original == (fEtag # 0) => (Exists(fPart) /\ Len(fPart) > 0)

\* C19 amended: in every state of the disk between calls, each of which has
\* returned, T.part.etag present implies T.part present.
C19_ArtifactInvariant == (dpc \in {"idle", "done"} /\ fEtag # 0) => Exists(fPart)

\* C19 witness: between two calls the ETag file exists next to an empty T.part
C19_Witness == dpc = "idle" /\ fEtag # 0 /\ fPart = <<>> /\ prev.kind = "interrupted"

\* C20: every request carries Range: bytes=S- with S the size of T.part; it
\* carries If-Match, with the stored ETag, exactly when S > 0 (the ETag file
\* was then loaded), If-None-Match exactly when no ETag was loaded and the
\* hint is not empty, never both; with S > 0 and an ETag file that cannot be
\* read no request is made, both files are removed and an error is returned.
C20_RequestHeaders ==
    /\ (dreq # NoRequest)
          => /\ dreq.range = Size(dpart0)
             /\ (dreq.ifMatch # 0) = (Size(dpart0) > 0)
             /\ dreq.ifMatch = dpartialETag
             /\ (dpc = "respond" => dreq.ifMatch \in {0, fEtag})
             /\ (dreq.ifNoneMatch # 0) = (dpartialETag = 0 /\ dhint # 0)
             /\ dreq.ifNoneMatch \in {0, dhint}
             /\ ~(dreq.ifMatch # 0 /\ dreq.ifNoneMatch # 0)
    /\ (dsize > 0 /\ dpartialETag = 0 /\ dpc # "stat")
          => /\ dreq = NoRequest
             /\ dpc = "done" /\ dret.err = "etagload"
             /\ ~Exists(fPart) /\ fEtag = 0

\* C20 witness: a request for the rest of a partial download, made with a
\* hint, carries If-Match and no If-None-Match
C20_Witness ==
    /\ dpc = "respond" /\ dsize > 0 /\ dhint # 0
    /\ dreq.range = dsize /\ dreq.ifMatch = fEtag /\ dreq.ifMatch # 0
    /\ dreq.ifNoneMatch = 0

\* C21: on 412 the call removes T.part and T.part.etag and returns 0 bytes
\* with the ETag-mismatch error; on 304 it removes both and returns 0 bytes,
\* the response ETag and no error; in both cases T is as it was.
C21_PreconditionResponses ==
    (dpc = "done" /\ dstatus \in {412, 304})
        => /\ ~Exists(fPart) /\ fEtag = 0
           /\ fT = dT0
           /\ dret = IF dstatus = 412
                        THEN [n |-> 0, etag |-> 0, err |-> "mismatch"]
                        ELSE [n |-> 0, etag |-> dver, err |-> "nil"]

\* C21 witness: a 304 answer to a call made while a T of an earlier download
\* was on disk
C21_Witness ==
    /\ dpc = "done" /\ dstatus = 304 /\ Exists(dT0) /\ fT = dT0
    /\ dret.etag = dhint /\ dret.err = "nil" /\ ~Exists(fPart)

\* the bodies the server may have sent with the status of the response
Bodies == {ServerBody(dstatus, dreq, dver, page) : page \in BOOLEAN}

\* C22: a call that returns without error on 206 or 416 leaves a T made of
\* the former content of T.part followed by the response body, in place of
\* any earlier T, and neither T.part nor T.part.etag; a call whose body copy
\* fails leaves T as it was and T.part with every byte written so far.
C22_Finalization ==
    /\ (dpc = "done" /\ dstatus \in {206, 416} /\ dret.err = "nil")
          => /\ \E b \in Bodies : Len(b) = dn /\ fT = dpart0 \o b
             /\ ~Exists(fPart) /\ fEtag = 0
    /\ (dpc = "done" /\ dret.err = "copy")
          => /\ fT = dT0
             /\ \E b \in Bodies : dn <= Len(b) /\ fPart = dpart0 \o SubSeq(b, 1, dn)

\* C22 witness: a resumed download has replaced an earlier T
C22_Witness ==
    /\ dpc = "done" /\ dstatus = 206 /\ dret.err = "nil"
    /\ Len(dpart0) > 0 /\ Exists(dT0) /\ fT # dT0 /\ fT = Content(dver)

\* C23 as stated: a call that completes the download returns the number of
\* bytes of the completed T, with the response ETag.
C23_Original ==
    (dpc = "done" /\ dstatus \in {206, 416} /\ dret.err = "nil")
        => (dret.n = Len(fT) /\ dret.etag = dver)

\* C23 amended: it returns the number of bytes copied by this call, which is
\* the size of T less the size T.part had when the call began, with the
\* response ETag.
C23_ByteCount ==
    (dpc = "done" /\ dstatus \in {206, 416} /\ dret.err = "nil")
        => (dret.n = Len(fT) - Len(dpart0) /\ dret.etag = dver)

\* C23 witness: a download completed by a call that resumed it
C23_Witness ==
    /\ dpc = "done" /\ dstatus = 206 /\ dret.err = "nil"
    /\ Len(dpart0) > 0 /\ dret.n > 0 /\ dret.n < Len(fT)

(***************************************************************************)
(* WaitForNetworkConnectivity (net.go:343-371).  The connectivity checker, *)
(* the stop channels and the ticker belong to the caller and the runtime:  *)
(* the answer of the checker changes, stop channels get closed and the     *)
(* ticker fires at any time.                                               *)
(***************************************************************************)
Stops == 1..MaxStops

WaitInit ==
    /\ wpc = "idle"
    /\ checker = FALSE
    /\ connectivity = 0
    /\ stops = {}
    /\ fired = {}
    /\ tickerC = FALSE
    /\ sawOne = FALSE

\* the call is still running
Waiting == wpc \in {"first", "check", "select"}

\* the network comes or goes
ConnectivityChanges ==
    /\ connectivity' = 1 - connectivity
    /\ UNCHANGED <<wpc, checker, stops, fired, tickerC, sawOne,
                   regVars, lruVars, supVars, thrVars, amcVars, dlVars, relVars, lprVars>>

\* a stop is broadcast: the channel is closed
StopFires(k) ==
    /\ k \notin fired
    /\ fired' = fired \cup {k}
    /\ UNCHANGED <<wpc, checker, connectivity, stops, tickerC, sawOne,
                   regVars, lruVars, supVars, thrVars, amcVars, dlVars, relVars, lprVars>>

\* the ticker made at line 349 sends on ticker.C, which holds one tick
TickerFires ==
    /\ wpc \in {"check", "select"}
    /\ ~tickerC
    /\ tickerC' = TRUE
    /\ UNCHANGED <<wpc, checker, connectivity, stops, fired, sawOne,
                   regVars, lruVars, supVars, thrVars, amcVars, dlVars, relVars, lprVars>>

\* WaitForNetworkConnectivity(connectivityChecker, stopBroadcasts...):
\* connectivityChecker == nil returns true
WaitForNetworkConnectivity(c, S) ==
    /\ wpc = "idle"
    /\ checker' = c
    /\ stops' = S
    /\ wpc' = IF c THEN "first" ELSE "true"
    /\ UNCHANGED <<connectivity, fired, tickerC, sawOne,
                   regVars, lruVars, supVars, thrVars, amcVars, dlVars, relVars, lprVars>>

\* 1 == connectivityChecker.HasNetworkConnectivity() of line 345, then the
\* notice and the new ticker
WaitFirstCheck ==
    /\ wpc = "first"
    /\ IF connectivity = 1
         THEN wpc' = "true" /\ sawOne' = TRUE
         ELSE wpc' = "check" /\ sawOne' = sawOne
    /\ UNCHANGED <<checker, connectivity, stops, fired, tickerC,
                   regVars, lruVars, supVars, thrVars, amcVars, dlVars, relVars, lprVars>>

\* 1 == connectivityChecker.HasNetworkConnectivity() at the top of the loop
WaitLoopCheck ==
    /\ wpc = "check"
    /\ IF connectivity = 1
         THEN wpc' = "true" /\ sawOne' = TRUE
         ELSE wpc' = "select" /\ sawOne' = sawOne
    /\ UNCHANGED <<checker, connectivity, stops, fired, tickerC,
                   regVars, lruVars, supVars, thrVars, amcVars, dlVars, relVars, lprVars>>

\* the select as it would be if a tick ended the wait
WaitSelectTickerStops ==
    /\ wpc = "select"
    /\ tickerC
    /\ tickerC' = FALSE
    /\ wpc' = "false"
    /\ UNCHANGED <<checker, connectivity, stops, fired, sawOne,
                   regVars, lruVars, supVars, thrVars, amcVars, dlVars, relVars, lprVars>>

\* reflect.Select chooses case 0, the ticker: chosen == 0 && ok, check again
WaitSelectTicker ==
    /\ wpc = "select"
    /\ tickerC
    /\ tickerC' = FALSE
    /\ wpc' = "check"
    /\ UNCHANGED <<checker, connectivity, stops, fired, sawOne,
                   regVars, lruVars, supVars, thrVars, amcVars, dlVars, relVars, lprVars>>

\* reflect.Select chooses one of the stop channels, which is closed: return
\* false
WaitSelectStop ==
    /\ wpc = "select"
    /\ stops \cap fired # {}
    /\ wpc' = "false"
    /\ UNCHANGED <<checker, connectivity, stops, fired, tickerC, sawOne,
                   regVars, lruVars, supVars, thrVars, amcVars, dlVars, relVars, lprVars>>

WaitNext ==
    \/ ConnectivityChanges
    \/ \E k \in Stops : StopFires(k)
    \/ TickerFires
    \/ \E c \in BOOLEAN, S \in SUBSET Stops : WaitForNetworkConnectivity(c, S)
    \/ WaitFirstCheck
    \/ WaitLoopCheck
    \/ WaitSelectTicker
    \/ WaitSelectStop

\* the goroutine making the call is scheduled, and reflect.Select chooses
\* among the ready cases at random, so that a stop channel that is ready
\* every time the select is reached is chosen in the end
WaitFairness ==
    /\ WF_vars(WaitFirstCheck) /\ WF_vars(WaitLoopCheck)
    /\ WF_vars(WaitSelectTicker \/ WaitSelectStop)
    /\ SF_vars(WaitSelectStop)

\* C25: the call returns true at once without a checker or when the first
\* check says 1; it returns true only after a check said 1 and false only
\* after one of its stop channels fired; with a stop fired and the checker
\* saying 0 from then on it returns false in the end; with no stop fired and
\* no check saying 1 it does not return.
C25_WaiterOutcome ==
    /\ [][/\ \A c \in BOOLEAN, S \in SUBSET Stops :
               (WaitForNetworkConnectivity(c, S) /\ ~c) => wpc' = "true"
          /\ (WaitFirstCheck /\ connectivity = 1) => wpc' = "true"
          /\ (Waiting /\ wpc' = "true") => connectivity = 1
          /\ (Waiting /\ wpc' = "false") => stops \cap fired # {}
          /\ (Waiting /\ connectivity = 0 /\ stops \cap fired = {}) => Waiting'
         ]_vars
    /\ [](wpc = "true" => (~checker \/ sawOne))
    /\ [](wpc = "false" => (checker /\ stops \cap fired # {}))
    /\ (Waiting /\ stops \cap fired # {}) ~> (wpc = "false" \/ connectivity = 1)

\* C25 witness: the call went round its loop on a tick and then returned
\* false on a stop, no check having said 1
C25_Witness ==
    /\ wpc = "false" /\ checker /\ ~sawOne
    /\ stops \cap fired # {} /\ stops \ fired # {}

(***************************************************************************)
(* LocalProxyRelay (net.go:316-335).  Direction "up" is the io.Copy from   *)
(* localConn to remoteConn the caller's goroutine runs, direction "down"   *)
(* the one from remoteConn to localConn the spawned goroutine runs.  A     *)
(* copy ends with nil at the end of its source and with an error whenever  *)
(* a Read or a Write fails.                                                *)
(***************************************************************************)
Directions == {"up", "down"}

Other(d) == IF d = "up" THEN "down" ELSE "up"

RelayInit ==
    /\ rpc = "idle"
    /\ gpc = "none"
    /\ copyWaitGroup = 0
    /\ source = [d \in Directions |-> 0]
    /\ copyErr = [d \in Directions |-> "none"]
    /\ notices = [d \in Directions |-> 0]
    /\ relayed = [d \in Directions |-> 0]

\* the statement the goroutine that copies direction d is at
PcOf(d) == IF d = "up" THEN rpc ELSE gpc

\* the goroutine that copies direction d moves to statement x
Goto(d, x) == IF d = "up" THEN rpc' = x /\ gpc' = gpc ELSE gpc' = x /\ rpc' = rpc

\* LocalProxyRelay(proxyType, localConn, remoteConn): copyWaitGroup.Add(1)
\* and the go statement; src[d] is what the source of direction d will give
LocalProxyRelay(src) ==
    /\ rpc = "idle"
    /\ copyWaitGroup' = 1
    /\ gpc' = "copy"
    /\ rpc' = "copy"
    /\ source' = src
    /\ UNCHANGED <<copyErr, notices, relayed,
                   regVars, lruVars, supVars, thrVars, amcVars, dlVars, relVars, wnVars>>

\* io.Copy moves a byte
RelayCopyByte(d) ==
    /\ PcOf(d) = "copy"
    /\ source[d] > 0
    /\ source' = [source EXCEPT ![d] = @ - 1]
    /\ relayed' = [relayed EXCEPT ![d] = @ + 1]
    /\ UNCHANGED <<rpc, gpc, copyWaitGroup, copyErr, notices,
                   regVars, lruVars, supVars, thrVars, amcVars, dlVars, relVars, wnVars>>

\* io.Copy returns: nil at the end of the source, an error at any point
RelayCopyEnds(d, ok) ==
    /\ PcOf(d) = "copy"
    /\ ok => source[d] = 0
    /\ copyErr' = [copyErr EXCEPT ![d] = IF ok THEN "nil" ELSE "error"]
    /\ Goto(d, "copied")
    /\ UNCHANGED <<copyWaitGroup, source, notices, relayed,
                   regVars, lruVars, supVars, thrVars, amcVars, dlVars, relVars, wnVars>>

\* if err != nil { NoticeLocalProxyError(proxyType, err) }; the goroutine
\* then ends with the deferred copyWaitGroup.Done(), the caller goes on to
\* copyWaitGroup.Wait()
RelayNotice(d) ==
    /\ PcOf(d) = "copied"
    /\ notices' = [notices EXCEPT ![d] = IF copyErr[d] = "error" THEN @ + 1 ELSE @]
    /\ IF d = "up"
         THEN Goto(d, "wait") /\ UNCHANGED copyWaitGroup
         ELSE Goto(d, "exited") /\ copyWaitGroup' = copyWaitGroup - 1
    /\ UNCHANGED <<source, copyErr, relayed,
                   regVars, lruVars, supVars, thrVars, amcVars, dlVars, relVars, wnVars>>

\* the relay as it would be without the copyWaitGroup.Wait()
RelayWaitNoJoin ==
    /\ rpc = "wait"
    /\ rpc' = "returned"
    /\ UNCHANGED <<gpc, copyWaitGroup, source, copyErr, notices, relayed,
                   regVars, lruVars, supVars, thrVars, amcVars, dlVars, relVars, wnVars>>

\* copyWaitGroup.Wait() and the return
RelayWait ==
    /\ rpc = "wait"
    /\ copyWaitGroup = 0
    /\ rpc' = "returned"
    /\ UNCHANGED <<gpc, copyWaitGroup, source, copyErr, notices, relayed,
                   regVars, lruVars, supVars, thrVars, amcVars, dlVars, relVars, wnVars>>

RelayNext ==
    \/ \E src \in [Directions -> 0..MaxRelay] : LocalProxyRelay(src)
    \/ \E d \in Directions : RelayCopyByte(d)
    \/ \E d \in Directions, ok \in BOOLEAN : RelayCopyEnds(d, ok)
    \/ \E d \in Directions : RelayNotice(d)
    \/ RelayWait

\* C26: the relay returns only after both copies have ended; the end of one
\* copy, with or without an error, neither makes the relay return nor stops
\* the other copy; and the error of a direction is reported once at most.
C26_RelayJoin ==
    /\ [](rpc = "returned" =>
             /\ gpc = "exited" /\ copyWaitGroup = 0
             /\ \A d \in Directions : copyErr[d] # "none")
    /\ [](\A d \in Directions :
             notices[d] = IF copyErr[d] = "error" /\ PcOf(d) # "copied" THEN 1 ELSE 0)
    /\ [][\A d \in Directions :
             (PcOf(d) = "copy" /\ PcOf(d)' # "copy") =>
                 /\ PcOf(d)' = "copied"
                 /\ rpc' # "returned"
                 /\ PcOf(Other(d))' = PcOf(Other(d))
                 /\ source'[Other(d)] = source[Other(d)]
                 /\ copyErr'[Other(d)] = copyErr[Other(d)]
         ]_vars
    /\ [](\A d \in Directions :
             (PcOf(d) = "copy" /\ source[d] > 0) => ENABLED RelayCopyByte(d))

\* C26 witness: the caller's copy has failed and was reported, the relay has
\* not returned, and the goroutine's copy is still moving bytes
C26_Witness ==
    /\ rpc = "wait" /\ copyErr["up"] = "error" /\ notices["up"] = 1
    /\ gpc = "copy" /\ relayed["down"] > 0 /\ source["down"] > 0

Init ==
    /\ ConnsInit /\ LRUInit /\ SupInit /\ ThrInit /\ AMCInit /\ DLInit
    /\ RelInit /\ WaitInit /\ RelayInit

ConnsSpec == Init /\ [][ConnsNext]_vars

LRUSpec == Init /\ [][LRUNext]_vars

SupSpec == Init /\ [][SupNext]_vars /\ SupFairness

ThrSpec == Init /\ [][ThrNext]_vars

AMCSpec == Init /\ [][AMCNext]_vars

DLSpec == Init /\ [][DLNext]_vars

WaitSpec == Init /\ [][WaitNext]_vars /\ WaitFairness

RelaySpec == Init /\ [][RelayNext]_vars

Next ==
    \/ ConnsNext \/ LRUNext \/ SupNext \/ ThrNext \/ AMCNext \/ DLNext
    \/ WaitNext \/ RelayNext

Spec == Init /\ [][Next]_vars

=============================================================================
